---- MODULE Spec2Model ----
(***************************************************************************)
(* Wellball game scoring and auto-ingest coordinator.                      *)
(*                                                                         *)
(* The model follows src/src/services/gameService.js (shots, undo,         *)
(* challenge progression), src/src/services/autoTrackingService.js (the    *)
(* auto-event coordinator) and src/unnamed/part_013 (challengeRules.js).   *)
(* The document store is Firestore: a runTransaction body is one atomic    *)
(* step, a plain getDoc/getDocs/updateDoc/addDoc is one atomic step of its *)
(* own, and consecutive awaits of one async function are separate steps    *)
(* that other clients may interleave with.                                 *)
(***************************************************************************)
EXTENDS Integers, Sequences, FiniteSets, TLC

VARIABLES
  game,          \* the games/{gameId} document
  logs,          \* games/{gameId}/logs: log id -> document
  nextLogId,     \* ids handed out by doc(logsRef); never reused
  ruleMetaBound, \* does the identifier ruleMeta (gameService.js:450) resolve
  undo,          \* per client: progress of a running deleteLogAndReverse
  leaving,       \* per tracker: progress of a running leaveTracking
  cycle,         \* history: number of advanceToNextChallenge commits so far
  logCycle,      \* history: log id -> value of cycle when the log was written
  events,        \* games/{gameId}/auto_events: event id -> document
  procs,         \* safeProcessEvent calls: coordinator -> event id -> frame
  latestGame,    \* per coordinator: the game its listenToGame callback saw last
  helpersBound,  \* do loadCurrentChallenge and normalizeShotKey
                 \* (autoTrackingService.js:24) resolve to functions
  reviewQueue,   \* games/{gameId}/review_queue: sequence of documents
  claims,        \* history: event id -> number of committed claim transactions
  displays,      \* per CastingDisplay client: its game snapshot, its
                 \* processedOTRef and the progress of its overtime write
  resolving,     \* per review client: progress of a running approveReviewItem,
                 \* editAndApproveReviewItem or rejectReviewItem
  now            \* the server clock, in whole seconds

vars == <<game, logs, nextLogId, ruleMetaBound, undo, leaving, cycle, logCycle,
          events, procs, latestGame, helpersBound, reviewQueue, claims,
          displays, resolving, now>>

(***************************************************************************)
(* Bounds of the model.                                                    *)
(***************************************************************************)
MaxLogId == 3   \* log documents (attempts and wins) ever created
MaxCycle == 1   \* advanceToNextChallenge commits explored
MaxNow == 2     \* seconds the server clock advances

null == [null |-> TRUE]   \* a null / missing document field
Nil == "null"             \* a null / undefined string-valued field

Teams == {"A", "B"}
Opp(t) == IF t = "A" THEN "B" ELSE "A"

(***************************************************************************)
(* Inputs explored.                                                        *)
(***************************************************************************)
Users == {"main", "u1"}            \* auth.currentUser.uid of a caller
Trackers == {"u1", "u2"}           \* signed-in users other than the main operator
Coordinators == {"k1", "k2"}       \* running startAutoCoordinator instances
Displays == {"d1", "d2"}           \* mounted CastingDisplay screens
Reviewers == {"r1", "r2"}          \* clients resolving Review Queue items
CoordUid == [k1 |-> "main", k2 |-> "u1"]
Events == {"e1"}                   \* auto_events document ids
Players == {"pA", "pB", "pX"}      \* pX is on neither roster
ShotTypes == {"mid", "long", "gamechanger", "bonus_mid", "bonus_long", "bonus_gc", "bonus"}
Sources == {"manual", "auto", "review", "review_edit"}
UndoClients == {"k1"}

\* Every call of logShot the state predicates range over.
ShotInputs ==
  [playerId : Players, shotType : ShotTypes, made : BOOLEAN, moneyball : BOOLEAN,
   source : Sources, evidence : {[null |-> TRUE]}, zone : {"null"}]

\* The manual calls the scoring actions take: team A's tracker uses every kind
\* of shot, team B's tracker plain mid makes.
ShotParams ==
  {p \in ShotInputs :
     /\ p.source = "manual"
     /\ p.playerId # "pX"
     /\ p.shotType \in {"mid", "gamechanger", "bonus_gc"}
     /\ (p.moneyball => p.shotType = "mid")
     /\ (p.shotType = "bonus_gc" => p.made)
     /\ (p.playerId = "pB" => p.shotType = "mid" /\ p.made /\ ~p.moneyball)}

(***************************************************************************)
(* challenges/{id}: the documents getCurrentChallengeMeta reads.           *)
(***************************************************************************)
MidOnlyStrict ==
  [mode |-> "allow", items |-> <<"mid_*">>, validation |-> "strict",
   requireRange |-> TRUE, requireZone |-> FALSE]

\* Allow-lists of exact range_zone patterns only, soft and strict.
ExactZoneRules ==
  [mode : {"allow"},
   items : {<<"mid_corner">>, <<"long_wing">>, <<"mid_corner", "long_wing">>},
   validation : {"soft", "strict"},
   requireRange : {TRUE}, requireZone : BOOLEAN]

CornerSoft ==
  [mode |-> "allow", items |-> <<"mid_corner", "long_wing">>,
   validation |-> "soft", requireRange |-> TRUE, requireZone |-> FALSE]

CornerStrict == [CornerSoft EXCEPT !.validation = "strict"]

Challenges ==
  [c1 |-> [targetScore |-> 2, pointsForWin |-> 1, shotRule |-> null],
   c2 |-> [targetScore |-> 2, pointsForWin |-> 2, shotRule |-> MidOnlyStrict],
   c3 |-> [targetScore |-> 3, pointsForWin |-> 1, shotRule |-> CornerSoft],
   c4 |-> [targetScore |-> 3, pointsForWin |-> 1, shotRule |-> CornerStrict]]

(***************************************************************************)
(* challengeRules.js (src/unnamed/part_013).                               *)
(***************************************************************************)
StrField(r, f) == IF f \in DOMAIN r THEN r[f] ELSE Nil

normRule(r) ==
  [mode |-> IF StrField(r, "mode") = "deny" THEN "deny" ELSE "allow",
   items |-> IF "items" \in DOMAIN r THEN r.items ELSE <<>>,
   validation |-> IF StrField(r, "validation") = "strict" THEN "strict"
                  ELSE IF StrField(r, "validation") = "none" THEN "none"
                  ELSE "soft",
   requireRange |-> IF "requireRange" \in DOMAIN r THEN r.requireRange # FALSE ELSE TRUE,
   requireZone |-> IF "requireZone" \in DOMAIN r THEN r.requireZone ELSE FALSE]

WILDS == {"mid_*", "long_*", "gamechanger"}

matchOne(pattern, shot) ==
  IF pattern = "gamechanger" THEN StrField(shot, "shotType") = "gamechanger"
  ELSE IF pattern = "mid_*" THEN StrField(shot, "shotType") = "mid"
  ELSE IF pattern = "long_*" THEN StrField(shot, "shotType") = "long"
  ELSE IF StrField(shot, "zone") = Nil THEN FALSE
  ELSE (shot.shotType \o "_" \o shot.zone) = pattern

SomeItem(items, P(_)) == \E i \in DOMAIN items : P(items[i])

shotMatchesRule(shot, rawRule, degradeWhenZoneUnknown) ==
  LET rule == normRule(rawRule)
      strict == rule.validation = "strict"
      needsExactZone ==
        LET exact(it) == it \notin WILDS /\ it # "gamechanger"
        IN  SomeItem(rule.items, exact)
      zoneUnknown ==
        StrField(shot, "zone") = Nil /\ StrField(shot, "shotType") # "gamechanger"
      assumed == [shotType |-> StrField(shot, "shotType"), zone |-> Nil]
      matchedWildcard ==
        LET m(it) == matchOne(it, assumed) IN SomeItem(rule.items, m)
      anyMatch ==
        LET m(it) == matchOne(it, shot) IN SomeItem(rule.items, m)
  IN
  IF rule.validation = "none" \/ Len(rule.items) = 0
    THEN [ok |-> TRUE, reason |-> Nil, matched |-> "null"]
  ELSE IF rule.requireRange /\ StrField(shot, "shotType") = Nil
    THEN IF strict
           THEN [ok |-> FALSE, reason |-> "missing_range", matched |-> "false"]
           ELSE [ok |-> TRUE, reason |-> "missing_range_soft", matched |-> "false"]
  ELSE IF needsExactZone /\ zoneUnknown
    THEN IF degradeWhenZoneUnknown /\ matchedWildcard
           THEN [ok |-> TRUE, reason |-> "zone_unknown_but_range_ok", matched |-> "true"]
         ELSE IF strict
           THEN [ok |-> FALSE, reason |-> "zone_required_but_unknown", matched |-> "false"]
           ELSE [ok |-> TRUE, reason |-> "zone_required_but_unknown_soft",
                 matched |-> "false"]
  ELSE IF rule.mode = "allow"
    THEN IF anyMatch THEN [ok |-> TRUE, reason |-> Nil, matched |-> "true"]
         ELSE IF strict
           THEN [ok |-> FALSE, reason |-> "not_in_allowlist", matched |-> "false"]
           ELSE [ok |-> TRUE, reason |-> "not_in_allowlist_soft", matched |-> "false"]
  ELSE IF anyMatch
    THEN IF strict
           THEN [ok |-> FALSE, reason |-> "in_denylist", matched |-> "false"]
           ELSE [ok |-> TRUE, reason |-> "in_denylist_soft", matched |-> "false"]
  ELSE [ok |-> TRUE, reason |-> Nil, matched |-> "true"]

(***************************************************************************)
(* gameService.js: scoring helpers.                                        *)
(***************************************************************************)
\* The points table, and a table that gives every made shot one point.
shotPointsFlat(shotType, made, moneyball) == IF made THEN 1 ELSE 0
shotPoints(shotType, made, moneyball) ==
  IF ~made THEN 0
  ELSE IF shotType = "bonus_mid" THEN 1
  ELSE IF shotType = "bonus_long" THEN 2
  ELSE IF shotType = "bonus_gc" THEN 4
  ELSE IF shotType = "bonus" THEN 1
  ELSE IF shotType = "gamechanger" THEN 5
  ELSE IF shotType \in {"mid", "long"} THEN (IF moneyball THEN 2 ELSE 1)
  ELSE 0

isBonusType(t) == t \in {"bonus", "bonus_mid", "bonus_long", "bonus_gc"}

playerTeamKey(g, playerId) ==
  IF playerId \in g.teamAIds THEN "A"
  ELSE IF playerId \in g.teamBIds THEN "B"
  ELSE Nil

NoMeta == [target |-> 0, pointsForWin |-> 0, shotRule |-> null]

getCurrentChallengeMeta(g) ==
  IF g.mode = "freestyle"
    THEN [target |-> g.freestyle.targetScore,
          pointsForWin |-> g.freestyle.pointsForWin,
          shotRule |-> null]
  ELSE IF g.currentChallengeIndex + 1 \notin DOMAIN g.sequenceChallengeIds
    THEN NoMeta
  ELSE LET id == g.sequenceChallengeIds[g.currentChallengeIndex + 1] IN
       IF id \notin DOMAIN Challenges THEN NoMeta
       ELSE [target |-> Challenges[id].targetScore,
             pointsForWin |-> Challenges[id].pointsForWin,
             shotRule |-> Challenges[id].shotRule]

NoSpecials == [t \in Teams |-> [moneyUsed |-> FALSE, gcUsed |-> FALSE]]

\* Math.max(0, x), and the same subtraction without the clamp.
Max0NoClamp(x) == x
Max0(x) == IF x > 0 THEN x ELSE 0

(***************************************************************************)
(* logShot: the checks of the transaction body, in source order.  The      *)
(* result is the rejection, or "ok" when every check passes.               *)
(* The rule check reads the zone from arguments[1].  logShot and the       *)
(* transaction callback are arrow functions, so arguments is not the       *)
(* parameter list of logShot; arguments[1] carries no zone and no shotKey, *)
(* and the attempt is always evaluated with zone = null.                   *)
(***************************************************************************)
clockOk(g) == g.status = "live" /\ g.clockRunning /\ ~g.paused

willCountMoneyball(p) ==
  ~isBonusType(p.shotType) /\ p.moneyball /\ p.shotType \in {"mid", "long"}

willUseGC(p) == ~isBonusType(p.shotType) /\ p.shotType = "gamechanger"

attemptMeta(p) == [shotType |-> p.shotType, zone |-> Nil, shotKey |-> Nil]

\* The challengeWon gate of logShot, and a logShot without the gate.
challengeCompletedNever(g) == FALSE
challengeCompleted(g) == g.challengeWon # null

\* The ownership check of logShot, and a logShot without it.
notAssignedNever(g, uid, lock) == FALSE
notAssigned(g, uid, lock) ==
  uid # g.roles.main /\ (lock = null \/ lock.uid # uid)

LogShotError(g, uid, p) ==
  LET teamKey == playerTeamKey(g, p.playerId)
      lock == g.trackerLocks[teamKey]
      meta == getCurrentChallengeMeta(g)
  IN
  IF p.source # "manual" /\ ~clockOk(g) THEN "ClockGated"
  ELSE IF challengeCompleted(g) THEN "ChallengeCompleted"
  ELSE IF teamKey = Nil THEN "UnknownPlayer"
  ELSE IF notAssigned(g, uid, lock) THEN "NotAssignedTracker"
  ELSE IF isBonusType(p.shotType) /\ ~g.bonusActive THEN "BonusNotActive"
  ELSE IF willCountMoneyball(p) /\ g.specials[teamKey].moneyUsed
    THEN "SpecialtyAlreadyUsed"
  ELSE IF willUseGC(p) /\ g.specials[teamKey].gcUsed THEN "SpecialtyAlreadyUsed"
  ELSE IF /\ ~isBonusType(p.shotType)
          /\ meta.shotRule # null
          /\ ~shotMatchesRule(attemptMeta(p), meta.shotRule, TRUE).ok
          /\ meta.shotRule.validation = "strict"
    THEN "ShotRuleViolation"
  ELSE "ok"

(***************************************************************************)
(* logShot: the writes of the transaction, for a call that passed the      *)
(* checks.  nid is the next free log id; the win log reference is created  *)
(* before the attempt reference.                                           *)
(***************************************************************************)
\* The win test of logShot, and a win test that needs the target exceeded.
reachesTargetStrict(newChallengeScore, target) ==
  target > 0 /\ newChallengeScore > target
reachesTarget(newChallengeScore, target) ==
  target > 0 /\ newChallengeScore >= target

WinsNow(g, p) ==
  LET teamKey == playerTeamKey(g, p.playerId)
      pts == shotPoints(p.shotType, p.made, willCountMoneyball(p))
      meta == getCurrentChallengeMeta(g)
  IN  /\ p.made
      /\ ~isBonusType(p.shotType)
      /\ reachesTarget(g.challengeScore[teamKey] + pts, meta.target)

pfwAward(g, p) ==
  LET teamKey == playerTeamKey(g, p.playerId)
      meta == getCurrentChallengeMeta(g)
  IN  meta.pointsForWin * (IF g.challengeScore[Opp(teamKey)] = 0 THEN 2 ELSE 1)

LogShotGame(g, nid, p) ==
  LET teamKey == playerTeamKey(g, p.playerId)
      bonusShot == isBonusType(p.shotType)
      pts == shotPoints(p.shotType, p.made, willCountMoneyball(p))
      meta == getCurrentChallengeMeta(g)
      newChallengeScore == g.challengeScore[teamKey] + pts
      won == WinsNow(g, p)
      match1 == IF p.made /\ bonusShot THEN g.matchScore[teamKey] + pts
                ELSE g.matchScore[teamKey]
      match2 == IF won THEN match1 + pfwAward(g, p) ELSE match1
      chal == IF p.made /\ ~bonusShot THEN newChallengeScore
              ELSE g.challengeScore[teamKey]
      wonNow == [team |-> teamKey,
                 atIndex |-> g.currentChallengeIndex,
                 scoreA |-> IF teamKey = "A" THEN newChallengeScore
                            ELSE g.challengeScore["A"],
                 scoreB |-> IF teamKey = "B" THEN newChallengeScore
                            ELSE g.challengeScore["B"],
                 pointsForWin |-> meta.pointsForWin,
                 shutout |-> g.challengeScore[Opp(teamKey)] = 0,
                 winLogId |-> nid]
  IN  [g EXCEPT
         !.matchScore[teamKey] = match2,
         !.challengeScore[teamKey] = chal,
         !.specials[teamKey].moneyUsed = IF willCountMoneyball(p) THEN TRUE ELSE @,
         !.specials[teamKey].gcUsed = IF willUseGC(p) THEN TRUE ELSE @,
         !.challengeWon = IF won THEN wonNow ELSE @]

AttemptDoc(g, p) ==
  [playerId |-> p.playerId, shotType |-> p.shotType, made |-> p.made,
   moneyball |-> p.moneyball, team |-> playerTeamKey(g, p.playerId),
   challengeIndex |-> g.currentChallengeIndex,
   source |-> p.source, evidence |-> p.evidence, zone |-> p.zone]

WinDoc(g, p) ==
  [type |-> "challenge_win", byPlayerId |-> p.playerId,
   team |-> playerTeamKey(g, p.playerId),
   challengeIndex |-> g.currentChallengeIndex,
   pointsForWin |-> getCurrentChallengeMeta(g).pointsForWin,
   shutout |-> g.challengeScore[Opp(playerTeamKey(g, p.playerId))] = 0,
   tag |-> "GameWinner"]

AttemptId(g, nid, p) == IF WinsNow(g, p) THEN nid + 1 ELSE nid

Put(f, k, v) == [x \in DOMAIN f \cup {k} |-> IF x = k THEN v ELSE f[x]]
Drop(f, ks) == [x \in DOMAIN f \ ks |-> f[x]]

LogShotLogs(g, lg, nid, p) ==
  LET withAttempt == Put(lg, AttemptId(g, nid, p), AttemptDoc(g, p))
  IN  IF WinsNow(g, p) THEN Put(withAttempt, nid, WinDoc(g, p)) ELSE withAttempt

LogShotNextId(g, nid, p) == AttemptId(g, nid, p) + 1

\* A call commits when every check passes and the log payload can be built:
\* the payload reads ruleMeta.ok and ruleMeta.reason (gameService.js:450) and
\* no module binds ruleMeta, so the read throws and the transaction aborts
\* unless the global scope provides the name.
LogShotCommits(g, uid, p) == LogShotError(g, uid, p) = "ok" /\ ruleMetaBound

(***************************************************************************)
(* deleteLogAndReverse: the transaction.  log is the attempt document the  *)
(* caller holds.  Every challengeWon written by logShot carries winLogId,  *)
(* so the win log is deleted inside the transaction.                       *)
(***************************************************************************)
IsAttempt(l) == "made" \in DOMAIN l
IsWinLog(l) == "type" \in DOMAIN l /\ l.type = "challenge_win"

wasWinningShot(g, log) ==
  /\ g.challengeWon # null
  /\ log.made
  /\ ~isBonusType(log.shotType)
  /\ g.challengeWon.team = log.team
  /\ g.challengeWon.atIndex = log.challengeIndex

\* The award deleteLogAndReverse takes back, and one that ignores the shutout.
pfwAppliedFlat(cw) == cw.pointsForWin
pfwApplied(cw) == cw.pointsForWin * (IF cw.shutout THEN 2 ELSE 1)

ReverseGame(g, log) ==
  LET pts == shotPoints(log.shotType, log.made, log.moneyball)
      team == log.team
      bonus == isBonusType(log.shotType)
      match1 == IF log.made /\ bonus THEN Max0(g.matchScore[team] - pts)
                ELSE g.matchScore[team]
      match2 == IF wasWinningShot(g, log)
                  THEN Max0(match1 - pfwApplied(g.challengeWon))
                  ELSE match1
      chal == IF log.made /\ ~bonus THEN Max0(g.challengeScore[team] - pts)
              ELSE g.challengeScore[team]
  IN  [g EXCEPT
         !.matchScore[team] = match2,
         !.challengeScore[team] = chal,
         !.challengeWon = IF wasWinningShot(g, log) THEN null ELSE @]

\* The documents the undo transaction deletes, and an undo that deletes the
\* attempt only.
ReverseLogsKeepWin(g, lg, id) == Drop(lg, {id})
ReverseLogs(g, lg, id) ==
  IF wasWinningShot(g, lg[id])
    THEN Drop(lg, {id, g.challengeWon.winLogId})
    ELSE Drop(lg, {id})

\* recomputeSpecialsForChallenge: the flags computed from the query result.
recomputeFlags(lg, challengeIndex) ==
  LET hit(t, P(_)) ==
        \E id \in DOMAIN lg :
          /\ lg[id].challengeIndex = challengeIndex
          /\ lg[id].team = t
          /\ P(lg[id])
      money(l) == "moneyball" \in DOMAIN l /\ l.moneyball
      gc(l) == "shotType" \in DOMAIN l /\ l.shotType = "gamechanger"
  IN  [t \in Teams |-> [moneyUsed |-> hit(t, money), gcUsed |-> hit(t, gc)]]

Idle == [pc |-> "idle"]

(***************************************************************************)
(* Actions of the scoring engine.                                          *)
(***************************************************************************)
AutoVars == <<events, procs, latestGame, helpersBound, reviewQueue, claims,
              displays, resolving>>

\* logShot(gameId, params) by caller uid: one transaction.
LogShot(uid, p) ==
  /\ LogShotCommits(game, uid, p)
  /\ AttemptId(game, nextLogId, p) <= MaxLogId
  /\ game' = LogShotGame(game, nextLogId, p)
  /\ logs' = LogShotLogs(game, logs, nextLogId, p)
  /\ nextLogId' = LogShotNextId(game, nextLogId, p)
  /\ logCycle' = [id \in DOMAIN logs' |->
                    IF id \in DOMAIN logs THEN logCycle[id] ELSE cycle]
  /\ UNCHANGED <<ruleMetaBound, leaving, undo, cycle, now>>

\* deleteLogAndReverse(gameId, log), first await: the transaction.
ReverseShot(c, id) ==
  /\ undo[c].pc = "idle"
  /\ id \in DOMAIN logs
  /\ IsAttempt(logs[id])
  /\ game' = ReverseGame(game, logs[id])
  /\ logs' = ReverseLogs(game, logs, id)
  /\ logCycle' = [x \in DOMAIN logs' |-> logCycle[x]]
  /\ undo' = [undo EXCEPT ![c] = [pc |-> "query",
                                  challengeIndex |-> logs[id].challengeIndex]]
  /\ UNCHANGED <<nextLogId, ruleMetaBound, leaving, cycle, now>>

\* recomputeSpecialsForChallenge, first await: getDocs(qy).
RecomputeQuery(c) ==
  /\ undo[c].pc = "query"
  /\ undo' = [undo EXCEPT ![c] = [pc |-> "update",
                                  flags |-> recomputeFlags(logs, undo[c].challengeIndex)]]
  /\ UNCHANGED <<game, logs, nextLogId, ruleMetaBound, leaving, cycle, logCycle, now>>

\* recomputeSpecialsForChallenge, second await: updateDoc({ specials: flags }).
RecomputeUpdate(c) ==
  /\ undo[c].pc = "update"
  /\ game' = [game EXCEPT !.specials = undo[c].flags]
  /\ undo' = [undo EXCEPT ![c] = Idle]
  /\ UNCHANGED <<logs, nextLogId, ruleMetaBound, leaving, cycle, logCycle, now>>

Min(a, b) == IF a < b THEN a ELSE b

\* The next cursor, and one that advances past the end of the sequence.
nextChallengeIndexUnclamped(g) == g.currentChallengeIndex + 1
nextChallengeIndex(g) ==
  IF g.mode = "sequence"
    THEN Min(g.currentChallengeIndex + 1, Max0(Len(g.sequenceChallengeIds) - 1))
    ELSE g.currentChallengeIndex + 1

\* advanceToNextChallenge(gameId): one transaction.
AdvanceToNextChallenge ==
  /\ cycle < MaxCycle
  /\ game' = [game EXCEPT
                !.currentChallengeIndex = nextChallengeIndex(game),
                !.challengeScore = [t \in Teams |-> 0],
                !.challengeWon = null,
                !.specials = NoSpecials,
                !.bonusActive = FALSE,
                !.overtimeCount = 0]
  /\ cycle' = cycle + 1
  /\ UNCHANGED <<logs, nextLogId, ruleMetaBound, leaving, undo, logCycle, now>>

BonusSeconds == 180

\* The clock fields startBonusMode writes, and a startBonusMode that sets the
\* baseline and leaves the clock as it runs.
bonusClockStillRunning(g) ==
  [clockSeconds |-> BonusSeconds, clockRunning |-> g.clockRunning,
   lastStartAt |-> g.lastStartAt]
bonusClock(g) ==
  [clockSeconds |-> BonusSeconds, clockRunning |-> FALSE, lastStartAt |-> null]

\* startBonusMode(gameId): one transaction.
StartBonusMode ==
  /\ game' = [game EXCEPT
                !.clockSeconds = bonusClock(game).clockSeconds,
                !.clockRunning = bonusClock(game).clockRunning,
                !.lastStartAt = bonusClock(game).lastStartAt,
                !.bonusActive = TRUE,
                !.overtimeCount = 0]
  /\ UNCHANGED <<logs, nextLogId, ruleMetaBound, leaving, undo, cycle, logCycle, now>>

\* endBonusMode(gameId): updateDoc({ bonusActive: false }).
EndBonusMode ==
  /\ game' = [game EXCEPT !.bonusActive = FALSE]
  /\ UNCHANGED <<logs, nextLogId, ruleMetaBound, leaving, undo, cycle, logCycle, now>>

\* endGame(gameId): updateDoc({ status: 'ended' }).
EndGame ==
  /\ game' = [game EXCEPT !.status = "ended"]
  /\ UNCHANGED <<logs, nextLogId, ruleMetaBound, leaving, undo, cycle, logCycle, now>>

\* setTeamLock(gameId, team, uidOrNull): one transaction.
SetTeamLock(team, uidOrNull) ==
  /\ game' = [game EXCEPT !.trackerLocks[team] =
                IF uidOrNull = Nil THEN null ELSE [uid |-> uidOrNull]]
  /\ UNCHANGED <<logs, nextLogId, ruleMetaBound, leaving, undo, cycle, logCycle, now>>

\* tryClaimTeam(gameId, team) by caller uid: one transaction; the lock is
\* written when the slot is free or already the caller's.
claimAllowedAlways(cur, uid) == TRUE
claimAllowed(cur, uid) == cur = null \/ cur.uid = uid

TryClaimTeam(uid, team) ==
  LET cur == game.trackerLocks[team] IN
  /\ game' = IF claimAllowed(cur, uid)
               THEN [game EXCEPT !.trackerLocks[team] = [uid |-> uid]]
               ELSE game
  /\ UNCHANGED <<logs, nextLogId, ruleMetaBound, leaving, undo, cycle, logCycle, now>>

\* leaveTracking(gameId) by caller uid, first await: getDoc(gameRef).
LeaveTrackingRead(uid) ==
  LET holds(t) == game.trackerLocks[t] # null /\ game.trackerLocks[t].uid = uid
      myTeam == IF holds("A") THEN "A" ELSE IF holds("B") THEN "B" ELSE Nil
  IN  /\ leaving[uid].pc = "idle"
      /\ leaving' = [leaving EXCEPT ![uid] = [pc |-> "release", myTeam |-> myTeam]]
      /\ UNCHANGED <<game, logs, nextLogId, ruleMetaBound, undo, cycle, logCycle, now>>

\* leaveTracking, second await: updateDoc({ trackerLocks.<myTeam>: null })
\* when the read found a team, nothing otherwise.
LeaveTrackingRelease(uid) ==
  /\ leaving[uid].pc = "release"
  /\ game' = IF leaving[uid].myTeam = Nil THEN game
             ELSE [game EXCEPT !.trackerLocks[leaving[uid].myTeam] = null]
  /\ leaving' = [leaving EXCEPT ![uid] = Idle]
  /\ UNCHANGED <<logs, nextLogId, ruleMetaBound, undo, cycle, logCycle, now>>

(***************************************************************************)
(* createGame: the document it writes.                                     *)
(***************************************************************************)
DefaultClockSeconds == 90

\* The games explored: a sequence of the one challenge c2 (target 2, two match
\* points, mid shots only), and a freestyle game left at its default target 0.
GameSetups ==
  {[mode |-> "sequence", sequenceChallengeIds |-> <<"c2">>, freestyle |-> null],
   [mode |-> "freestyle", sequenceChallengeIds |-> <<>>,
    freestyle |-> [targetScore |-> 0, pointsForWin |-> 1]]}

createGame(setup, locks) ==
  [createdBy |-> "main", roles |-> [main |-> "main"],
   teamAIds |-> {"pA"}, teamBIds |-> {"pB"},
   mode |-> setup.mode,
   sequenceChallengeIds |-> setup.sequenceChallengeIds,
   currentChallengeIndex |-> 0,
   freestyle |-> setup.freestyle,
   matchScore |-> [t \in Teams |-> 0],
   challengeScore |-> [t \in Teams |-> 0],
   challengeWon |-> null,
   specials |-> NoSpecials,
   bonusActive |-> FALSE,
   overtimeCount |-> 0,
   clockSeconds |-> DefaultClockSeconds,
   clockRunning |-> FALSE,
   lastStartAt |-> null,
   trackerLocks |-> locks,
   paused |-> FALSE,
   autoMode |-> null,
   status |-> "live"]

NoLocks == [t \in Teams |-> null]
EmptyFn == [x \in {} |-> null]

\* storeFailed is history: a store operation of the call has thrown.
IdleFrame == [pc |-> "idle", latest |-> null, ev |-> null, claimed |-> FALSE,
              reviewId |-> 0, storeFailed |-> FALSE]

\* A CastingDisplay just mounted: no snapshot yet, processedOTRef = -1.
IdleDisplay == [snap |-> null, processedOT |-> 0 - 1, pc |-> "idle", count |-> 0]

\* No event submitted, every coordinator freshly started, every display just
\* mounted, no review resolution running.
InitAuto ==
  /\ displays = [d \in Displays |-> IdleDisplay]
  /\ resolving = [c \in Reviewers |-> Idle]
  /\ events = EmptyFn
  /\ procs = [k \in Coordinators |-> [e \in Events |-> IdleFrame]]
  /\ latestGame = [k \in Coordinators |-> null]
  /\ reviewQueue = <<>>
  /\ claims = [e \in Events |-> 0]

\* A game in play: created by createGame, with tracker u1 holding team A.
Init ==
  /\ \E setup \in GameSetups :
       game = createGame(setup, [NoLocks EXCEPT !["A"] = [uid |-> "u1"]])
  /\ logs = EmptyFn
  /\ nextLogId = 1
  /\ ruleMetaBound \in BOOLEAN
  /\ leaving = [u \in Trackers |-> Idle]
  /\ undo = [c \in UndoClients |-> Idle]
  /\ cycle = 0
  /\ logCycle = EmptyFn
  /\ now = 0
  /\ helpersBound = FALSE
  /\ InitAuto

Next ==
  \/ \E uid \in Users, p \in ShotParams : LogShot(uid, p) /\ UNCHANGED AutoVars
  \/ \E c \in UndoClients, id \in DOMAIN logs : ReverseShot(c, id) /\ UNCHANGED AutoVars
  \/ \E c \in UndoClients : RecomputeQuery(c) /\ UNCHANGED AutoVars
  \/ \E c \in UndoClients : RecomputeUpdate(c) /\ UNCHANGED AutoVars
  \/ AdvanceToNextChallenge /\ UNCHANGED AutoVars
  \/ StartBonusMode /\ UNCHANGED AutoVars

Spec == Init /\ [][Next]_vars

(***************************************************************************)
(* Properties of the scoring engine, checked under Spec.                   *)
(***************************************************************************)
WinLogIds == {id \in DOMAIN logs : IsWinLog(logs[id])}
AttemptIds == {id \in DOMAIN logs : IsAttempt(logs[id])}

\* C1: after any interleaving of logShot, deleteLogAndReverse and
\* advanceToNextChallenge, both challenge scores and both match scores are
\* greater than or equal to zero.
C1_ScoresNonNegative ==
  \A t \in Teams : game.challengeScore[t] >= 0 /\ game.matchScore[t] >= 0

\* C1 witness: a made attempt of an earlier cycle has been reversed after the
\* advance reset the challenge score, so the subtraction met the clamp.
C1_Witness ==
  /\ undo["k1"].pc = "query"
  /\ cycle > 0
  /\ nextLogId > 1
  /\ \A t \in Teams : game.challengeScore[t] = 0
  /\ \A id \in DOMAIN logs : logCycle[id] = cycle

\* The game and logs after logShot(p) commits in the current state and
\* deleteLogAndReverse of the attempt it wrote runs to completion at once.
ShotThenUndo(p) ==
  LET g1 == LogShotGame(game, nextLogId, p)
      lg1 == LogShotLogs(game, logs, nextLogId, p)
      aid == AttemptId(game, nextLogId, p)
      g2 == ReverseGame(g1, lg1[aid])
      lg2 == ReverseLogs(g1, lg1, aid)
  IN  [game |-> [g2 EXCEPT !.specials = recomputeFlags(lg2, lg1[aid].challengeIndex)],
       logs |-> lg2]

NothingChangesWhileWon ==
  game.challengeWon # null =>
    /\ DOMAIN logs' \subseteq DOMAIN logs
    /\ game'.challengeWon \in {game.challengeWon, null}
    /\ \A t \in Teams : /\ game'.challengeScore[t] <= game.challengeScore[t]
                        /\ game'.matchScore[t] <= game.matchScore[t]

MadeNormalShotStep ==
  \E id \in DOMAIN logs' \ DOMAIN logs :
    IsAttempt(logs'[id]) /\ logs'[id].made /\ ~isBonusType(logs'[id].shotType)

NewAttemptId == CHOOSE id \in DOMAIN logs' \ DOMAIN logs : IsAttempt(logs'[id])

WinRecorded(t) ==
  /\ game'.challengeWon # null
  /\ game'.challengeWon.team = t
  /\ game'.challengeWon.atIndex = game.currentChallengeIndex
  /\ Cardinality({id \in DOMAIN logs' \ DOMAIN logs : IsWinLog(logs'[id])}) = 1
  /\ IsWinLog(logs'[game'.challengeWon.winLogId])

NoWinRecorded ==
  /\ game'.challengeWon = null
  /\ \A id \in DOMAIN logs' \ DOMAIN logs : ~IsWinLog(logs'[id])

WinStep == game.challengeWon = null /\ game'.challengeWon # null

\* The step deletes the attempt log of the shot that recorded the pending win.
WinningShotReversedStep ==
  /\ game.challengeWon # null
  /\ game.challengeWon.winLogId + 1 \in DOMAIN logs
  /\ game.challengeWon.winLogId + 1 \notin DOMAIN logs'

AwardOf(cw) == IF cw.shutout THEN 2 * cw.pointsForWin ELSE cw.pointsForWin

ScoreVars == <<undo, leaving, cycle, ruleMetaBound, now, displays, resolving>>

IngestThresholdDefault == 85
ReviewThresholdDefault == 65

\* The event documents the detection layer writes (schema, lines 30-49).
\* A made mid by pA at three confidences, and one event without a player id.
EventPayloads ==
  {[type |-> "shot", playerId |-> pc[1], shotType |-> "mid", made |-> TRUE,
    moneyball |-> FALSE, confidence |-> pc[2], zone |-> Nil] :
      pc \in {<<"pA", 50>>, <<"pA", 70>>, <<"pA", 90>>, <<Nil, 90>>}}

clamp01(x) == IF x < 0 THEN 0 ELSE IF x > 100 THEN 100 ELSE x

\* setAutoMode(gameId, cfg): throws before writing when review > ingest.
AutoModeInputs ==
  {cfg \in [enabled : BOOLEAN, ingestThreshold : {60, IngestThresholdDefault},
            reviewThreshold : {ReviewThresholdDefault}, gateByClock : BOOLEAN] :
     (~cfg.enabled \/ cfg.ingestThreshold = 60) => cfg.gateByClock}

\* The guard of setAutoMode (r > i after clamping), and a setAutoMode without it.
setAutoModeNeverThrows(cfg) == FALSE
setAutoModeThrows(cfg) == clamp01(cfg.reviewThreshold) > clamp01(cfg.ingestThreshold)

SetAutoMode(cfg) ==
  /\ ~setAutoModeThrows(cfg)
  /\ game' = [game EXCEPT !.autoMode =
                [enabled |-> cfg.enabled,
                 ingestThreshold |-> clamp01(cfg.ingestThreshold),
                 reviewThreshold |-> clamp01(cfg.reviewThreshold),
                 gateByClock |-> cfg.gateByClock]]
  /\ UNCHANGED <<logs, nextLogId, logCycle, ScoreVars, AutoVars>>

\* startClock(gameId): updateDoc.
StartClock ==
  /\ game' = [game EXCEPT !.clockRunning = TRUE, !.lastStartAt = [ts |-> now]]
  /\ UNCHANGED <<logs, nextLogId, logCycle, ScoreVars, AutoVars>>

\* The remaining seconds stopClock stores when it runs at time t, and a
\* stopClock that stores the baseline as it is.
stopRemainingKeepsBase(g, t) == g.clockSeconds
stopRemaining(g, t) ==
  IF g.clockRunning /\ g.lastStartAt # null
    THEN Max0(g.clockSeconds - Max0(t - g.lastStartAt.ts))
    ELSE g.clockSeconds

\* stopClock(gameId): one transaction.
StopClock ==
  LET remaining == stopRemaining(game, now)
  IN  /\ game' = [game EXCEPT !.clockSeconds = remaining,
                              !.clockRunning = FALSE,
                              !.lastStartAt = null]
      /\ UNCHANGED <<logs, nextLogId, logCycle, ScoreVars, AutoVars>>

\* The fields of the game the coordinator's clock gate reads.
GateView(g) == [status |-> g.status, clockRunning |-> g.clockRunning,
                paused |-> g.paused]

\* listenToGame callback of coordinator k: latestGame = g.
GameSnapshot(k) ==
  /\ latestGame[k] # GateView(game)
  /\ latestGame' = [latestGame EXCEPT ![k] = GateView(game)]
  /\ UNCHANGED <<game, logs, nextLogId, logCycle, ScoreVars,
                 events, procs, helpersBound, reviewQueue, claims>>

\* The detection layer adds a pending event document.
SubmitEvent(e, d) ==
  /\ e \notin DOMAIN events
  /\ events' = Put(events, e, [status |-> "pending", data |-> d, reviewId |-> 0])
  /\ UNCHANGED <<game, logs, nextLogId, logCycle, ScoreVars,
                 procs, latestGame, helpersBound, reviewQueue, claims>>

Frame(k, e) == procs[k][e]

SetFrame(k, e, f) == procs' = [procs EXCEPT ![k][e] = f]

GoTo(k, e, pc) == SetFrame(k, e, [Frame(k, e) EXCEPT !.pc = pc])

\* A store operation of the call throws and control moves to pc.
StoreThrows(k, e, pc) ==
  SetFrame(k, e, [Frame(k, e) EXCEPT !.pc = pc, !.storeFailed = TRUE])

SetStatus(e, st) == events' = [events EXCEPT ![e].status = st]

\* onSnapshot of the pending query, coordinator k: an 'added' change for e
\* schedules safeProcessEvent(gameId, ref, latestGame).
DeliverEvent(k, e) ==
  /\ e \in DOMAIN events
  /\ events[e].status = "pending"
  /\ Frame(k, e).pc = "idle"
  /\ GoTo(k, e, "scheduled")
  /\ UNCHANGED <<game, logs, nextLogId, logCycle, ScoreVars,
                 events, latestGame, helpersBound, reviewQueue, claims>>

\* claimEvent, the test of the transaction: an absent status counts as pending.
claimableAlways(st) == TRUE
claimable(st) == st = "pending"

\* safeProcessEvent when claimEvent throws: return.
pcAfterClaimThrowsFallThrough == "readGame"
pcAfterClaimThrows == "done"

\* safeProcessEvent starts: latestGame is read, then the claim transaction
\* runs.  It commits processing, or throws (already handled, or the store
\* fails) and safeProcessEvent returns.
ClaimEvent(k, e) ==
  /\ Frame(k, e).pc = "scheduled"
  /\ \/ /\ claimable(events[e].status)
        /\ SetStatus(e, "processing")
        /\ claims' = [claims EXCEPT ![e] = @ + 1]
        /\ SetFrame(k, e, [Frame(k, e) EXCEPT !.pc = "claimed",
                                              !.latest = latestGame[k],
                                              !.claimed = TRUE])
     \/ /\ SetFrame(k, e, [Frame(k, e) EXCEPT !.pc = pcAfterClaimThrows,
                                              !.latest = latestGame[k]])
        /\ UNCHANGED <<events, claims>>
  /\ UNCHANGED <<game, logs, nextLogId, logCycle, ScoreVars,
                 latestGame, helpersBound, reviewQueue>>

\* claimEvent, getDoc(eventRef) after the transaction; a throw is caught by
\* the same catch of safeProcessEvent, which returns.
ClaimReadBack(k, e) ==
  /\ Frame(k, e).pc = "claimed"
  /\ \/ SetFrame(k, e, [Frame(k, e) EXCEPT !.pc = "readGame", !.ev = events[e].data])
     \/ StoreThrows(k, e, pcAfterClaimThrows)
  /\ UNCHANGED <<game, logs, nextLogId, logCycle, ScoreVars,
                 events, latestGame, helpersBound, reviewQueue, claims>>

DefaultAuto ==
  [enabled |-> FALSE, ingestThreshold |-> IngestThresholdDefault,
   reviewThreshold |-> ReviewThresholdDefault, gateByClock |-> TRUE]

basicOk(ev) ==
  /\ ev # null
  /\ ev.type = "shot"
  /\ ev.playerId # Nil
  /\ ev.shotType # Nil
  /\ ev.made \in BOOLEAN
  /\ ev.confidence \in Int

\* The path the confidence selects, and a selection without the review band.
confidencePathNoReview(conf, ingestTh, reviewTh) ==
  IF conf >= ingestTh THEN "ingestReadGame" ELSE "markIgnored"
confidencePath(conf, ingestTh, reviewTh) ==
  IF conf >= ingestTh THEN "ingestReadGame"
  ELSE IF conf >= reviewTh THEN "pushLowConfidence"
  ELSE "markIgnored"

\* safeProcessEvent from the game read to the first store operation after it:
\* the operation the gates and the thresholds select.
Route(g, latest, ev) ==
  LET auto == IF g.autoMode = null THEN DefaultAuto ELSE g.autoMode
      gate == IF latest # null THEN latest ELSE GateView(g)
  IN  IF ~auto.enabled THEN "markDisabled"
      ELSE IF auto.gateByClock /\ ~clockOk(gate) THEN "markClockBlocked"
      ELSE IF ~basicOk(ev) THEN "pushBadShape"
      ELSE confidencePath(clamp01(ev.confidence),
                          clamp01(g.autoMode.ingestThreshold),
                          clamp01(g.autoMode.reviewThreshold))

\* safeProcessEvent, getDoc(games/{gameId}); a throw goes to the catch.
ReadGame(k, e) ==
  /\ Frame(k, e).pc = "readGame"
  /\ \/ GoTo(k, e, Route(game, Frame(k, e).latest, Frame(k, e).ev))
     \/ StoreThrows(k, e, "catch")
  /\ UNCHANGED <<game, logs, nextLogId, logCycle, ScoreVars,
                 events, latestGame, helpersBound, reviewQueue, claims>>

\* safeProcessEvent and ingestShot return after each status write.
pcAfterStatusWrittenFallsToCatch == "catch"
pcAfterStatusWritten == "done"

\* updateDoc(eventRef, {status}) at program point pc: the write, or a throw
\* that moves the call to onThrow.
StatusWrite(k, e, pc, st, onThrow) ==
  /\ Frame(k, e).pc = pc
  /\ \/ SetStatus(e, st) /\ GoTo(k, e, pcAfterStatusWritten)
     \/ StoreThrows(k, e, onThrow) /\ UNCHANGED events
  /\ UNCHANGED <<game, logs, nextLogId, logCycle, ScoreVars,
                 latestGame, helpersBound, reviewQueue, claims>>

MarkDisabled(k, e) == StatusWrite(k, e, "markDisabled", "disabled", "catch")
MarkClockBlocked(k, e) == StatusWrite(k, e, "markClockBlocked", "blocked", "catch")
MarkIgnored(k, e) == StatusWrite(k, e, "markIgnored", "ignored", "catch")

ReviewItem(ev, e, reason) ==
  [eventId |-> e, reason |-> reason,
   playerId |-> IF ev = null THEN Nil ELSE ev.playerId,
   shotType |-> IF ev = null THEN Nil ELSE ev.shotType,
   made |-> IF ev = null THEN FALSE ELSE ev.made,
   moneyball |-> IF ev = null THEN FALSE ELSE ev.moneyball,
   confidence |-> IF ev = null THEN 0 ELSE clamp01(ev.confidence),
   resolved |-> FALSE, decision |-> Nil]

\* The four calls of pushToReviewQueue and the reason each one passes.
PushReason ==
  [pushBadShape |-> "bad_shape", pushLowConfidence |-> "low_confidence",
   pushRuleViolation |-> "rule_violation", pushBlocked |-> "blocked"]

\* pushToReviewQueue: addDoc, or a throw, which from every call site reaches
\* the catch of safeProcessEvent.
PushToReviewQueue(k, e) ==
  /\ Frame(k, e).pc \in DOMAIN PushReason
  /\ \/ /\ reviewQueue' = Append(reviewQueue,
                                  ReviewItem(Frame(k, e).ev, e, PushReason[Frame(k, e).pc]))
        /\ SetFrame(k, e, [Frame(k, e) EXCEPT !.pc = "markQueued",
                                              !.reviewId = Len(reviewQueue) + 1])
     \/ StoreThrows(k, e, "catch") /\ UNCHANGED reviewQueue
  /\ UNCHANGED <<game, logs, nextLogId, logCycle, ScoreVars,
                 events, latestGame, helpersBound, claims>>

\* updateDoc(eventRef, {status: 'queued', reviewId}).
MarkQueued(k, e) ==
  /\ Frame(k, e).pc = "markQueued"
  /\ \/ /\ events' = [events EXCEPT ![e].status = "queued",
                                    ![e].reviewId = Frame(k, e).reviewId]
        /\ GoTo(k, e, pcAfterStatusWritten)
     \/ StoreThrows(k, e, "catch") /\ UNCHANGED events
  /\ UNCHANGED <<game, logs, nextLogId, logCycle, ScoreVars,
                 latestGame, helpersBound, reviewQueue, claims>>

\* The catch of safeProcessEvent: updateDoc(eventRef, {status: 'blocked'});
\* a throw here leaves safeProcessEvent as an unhandled rejection.
CatchMarkBlocked(k, e) == StatusWrite(k, e, "catch", "blocked", "done")

(***************************************************************************)
(* ingestShot.  The two helpers it imports from challengeRules are defined *)
(* by no module; they are modelled from the specification: the challenge   *)
(* document of the game's cursor, and the canonical shot key.              *)
(***************************************************************************)
loadCurrentChallenge(g) ==
  IF g.mode = "sequence"
       /\ g.currentChallengeIndex + 1 \in DOMAIN g.sequenceChallengeIds
       /\ g.sequenceChallengeIds[g.currentChallengeIndex + 1] \in DOMAIN Challenges
    THEN Challenges[g.sequenceChallengeIds[g.currentChallengeIndex + 1]]
    ELSE null

deriveShotKey(shotType, zone, provided) ==
  IF provided # Nil THEN provided
  ELSE IF shotType = Nil THEN Nil
  ELSE IF shotType \in {"gamechanger", "bonus_gc"} THEN "gc"
  ELSE IF shotType \in {"mid", "bonus_mid"}
    THEN "mid" \o "_" \o (IF zone = Nil THEN "unknown" ELSE zone)
  ELSE IF shotType \in {"long", "bonus_long"}
    THEN "long" \o "_" \o (IF zone = Nil THEN "unknown" ELSE zone)
  ELSE Nil

normalizeShotKey(shotType, zone, provided) == deriveShotKey(shotType, zone, provided)

\* ingestShot, getDoc(games/{gameId}); outside the try of ingestShot, so a
\* throw reaches the catch of safeProcessEvent.
IngestReadGame(k, e) ==
  /\ Frame(k, e).pc = "ingestReadGame"
  /\ \/ GoTo(k, e, "ingestLoad")
     \/ StoreThrows(k, e, "catch")
  /\ UNCHANGED <<game, logs, nextLogId, logCycle, ScoreVars,
                 events, latestGame, helpersBound, reviewQueue, claims>>

\* The rule check of ingestShot: shotMatchesRule(challenge, {shotType, zone,
\* shotKey}) passes the challenge as the shot and the shot as the rule.
ingestRuleRes(g, ev) ==
  shotMatchesRule(loadCurrentChallenge(g),
                  [shotType |-> ev.shotType, zone |-> ev.zone,
                   shotKey |-> normalizeShotKey(ev.shotType, ev.zone, Nil)],
                  TRUE)

\* ingestShot, loadCurrentChallenge(gameSnap) up to the rule decision: the
\* call throws when the helper is not bound or its read fails.
IngestLoadChallenge(k, e) ==
  /\ Frame(k, e).pc = "ingestLoad"
  /\ \/ /\ helpersBound
        /\ GoTo(k, e, IF ingestRuleRes(game, Frame(k, e).ev).ok
                        THEN "ingestLog" ELSE "pushRuleViolation")
     \/ helpersBound /\ StoreThrows(k, e, "catch")
     \/ ~helpersBound /\ GoTo(k, e, "catch")
  /\ UNCHANGED <<game, logs, nextLogId, logCycle, ScoreVars,
                 events, latestGame, helpersBound, reviewQueue, claims>>

AutoShotParams(e, ev) ==
  [playerId |-> ev.playerId, shotType |-> ev.shotType, made |-> ev.made,
   moneyball |-> ev.moneyball, source |-> "auto",
   evidence |-> [eventId |-> e], zone |-> ev.zone]

\* ingestShot, logShot(...) inside the try: the transaction commits, or it
\* throws (a rejection, or the store fails) and the catch of ingestShot runs.
IngestLogShot(k, e) ==
  /\ Frame(k, e).pc = "ingestLog"
  /\ LET p == AutoShotParams(e, Frame(k, e).ev) IN
     \/ /\ LogShotCommits(game, CoordUid[k], p)
        /\ game' = LogShotGame(game, nextLogId, p)
        /\ logs' = LogShotLogs(game, logs, nextLogId, p)
        /\ nextLogId' = LogShotNextId(game, nextLogId, p)
        /\ logCycle' = [id \in DOMAIN logs' |->
                          IF id \in DOMAIN logs THEN logCycle[id] ELSE cycle]
        /\ GoTo(k, e, "markIngested")
     \/ /\ IF LogShotCommits(game, CoordUid[k], p)
             THEN StoreThrows(k, e, "pushBlocked")
             ELSE GoTo(k, e, "pushBlocked")
        /\ UNCHANGED <<game, logs, nextLogId, logCycle>>
  /\ UNCHANGED <<ScoreVars, events, latestGame, helpersBound, reviewQueue, claims>>

\* ingestShot, updateDoc(eventRef, {status: 'ingested'}) inside the try.
MarkIngested(k, e) == StatusWrite(k, e, "markIngested", "ingested", "pushBlocked")

(***************************************************************************)
(* The coordinator specification: a live game, two coordinator instances,  *)
(* the operator's auto-mode and clock controls, and the detection layer.   *)
(* Two builds are explored: the sources as they are, where neither         *)
(* ruleMeta nor the two imported helpers resolve, and the build where all  *)
(* of them resolve.                                                        *)
(***************************************************************************)
InitCoordinator ==
  /\ game = createGame([mode |-> "sequence", sequenceChallengeIds |-> <<"c1", "c2">>,
                        freestyle |-> null],
                       [NoLocks EXCEPT !["A"] = [uid |-> "u1"]])
  /\ logs = EmptyFn
  /\ nextLogId = 1
  /\ ruleMetaBound \in BOOLEAN
  /\ leaving = [u \in Trackers |-> Idle]
  /\ helpersBound = ruleMetaBound
  /\ undo = [c \in UndoClients |-> Idle]
  /\ cycle = 0
  /\ logCycle = EmptyFn
  /\ now = 0
  /\ InitAuto

ProcStep(k, e) ==
  \/ ClaimEvent(k, e)
  \/ ClaimReadBack(k, e)
  \/ ReadGame(k, e)
  \/ MarkDisabled(k, e)
  \/ MarkClockBlocked(k, e)
  \/ MarkIgnored(k, e)
  \/ PushToReviewQueue(k, e)
  \/ MarkQueued(k, e)
  \/ IngestReadGame(k, e)
  \/ IngestLoadChallenge(k, e)
  \/ IngestLogShot(k, e)
  \/ MarkIngested(k, e)
  \/ CatchMarkBlocked(k, e)

NextCoordinator ==
  \/ \E cfg \in AutoModeInputs : SetAutoMode(cfg)
  \/ StartClock
  \/ StopClock
  \/ \E k \in Coordinators : GameSnapshot(k)
  \/ \E e \in Events, d \in EventPayloads : SubmitEvent(e, d)
  \/ \E k \in Coordinators, e \in Events : DeliverEvent(k, e)
  \/ \E k \in Coordinators, e \in Events : ProcStep(k, e)

SpecCoordinator == InitCoordinator /\ [][NextCoordinator]_vars

\* The coordinator keeps running: a safeProcessEvent call that can take its
\* next step takes it.
SpecCoordinatorFair ==
  /\ SpecCoordinator
  /\ \A k \in Coordinators, e \in Events : WF_vars(ProcStep(k, e))

(***************************************************************************)
(* Properties of the coordinator, checked under SpecCoordinator.           *)
(***************************************************************************)
Terminal == {"ingested", "queued", "ignored", "blocked", "disabled"}

LogsOfEvent(e) ==
  {id \in AttemptIds : logs[id].evidence = [eventId |-> e]}

RECURSIVE SumPoints(_)
SumPoints(ids) ==
  IF ids = {} THEN 0
  ELSE LET id == CHOOSE x \in ids : TRUE IN
       shotPoints(logs[id].shotType, logs[id].made, logs[id].moneyball)
         + SumPoints(ids \ {id})

\* C7: however many coordinators receive the same pending event, at most one
\* attempt log carrying its event id is committed, and the challenge scores
\* hold the points of the stored made attempts once.
C7_AutoEventIdempotent ==
  /\ \A e \in Events : Cardinality(LogsOfEvent(e)) <= 1
  /\ \A t \in Teams :
       game.challengeScore[t] =
         SumPoints({id \in AttemptIds : /\ logs[id].team = t
                                        /\ logs[id].made
                                        /\ ~isBonusType(logs[id].shotType)})

\* C7 witness: the event went to both coordinators, both calls are over, and
\* the event is ingested with its one log.
C7_Witness ==
  \E e \in DOMAIN events :
    /\ events[e].status = "ingested"
    /\ Cardinality(LogsOfEvent(e)) = 1
    /\ \A k \in Coordinators : Frame(k, e).pc = "done"

\* A step of a safeProcessEvent call whose claim did not succeed.
LoserStep(k, e) ==
  /\ Frame(k, e) # procs'[k][e]
  /\ ~procs'[k][e].claimed

\* C8: at most one claim of an event succeeds; a claim succeeds only on a
\* pending event and writes processing in the same step; a call whose claim
\* failed returns and writes nothing to the events, the game, the logs or the
\* review queue.
C8_SingleClaim ==
  /\ [](\A e \in Events :
          /\ claims[e] <= 1
          /\ Cardinality({k \in Coordinators : Frame(k, e).claimed}) <= 1)
  /\ [][\A k \in Coordinators, e \in Events :
          /\ (~Frame(k, e).claimed /\ procs'[k][e].claimed) =>
               /\ events[e].status = "pending"
               /\ events'[e].status = "processing"
          /\ LoserStep(k, e) => UNCHANGED <<events, game, logs, reviewQueue>>]_vars

\* C8 witness: one coordinator holds the claim and the other one's claim has
\* failed and returned.
C8_Witness ==
  \E e \in DOMAIN events, k1 \in Coordinators, k2 \in Coordinators :
    /\ Frame(k1, e).claimed
    /\ ~Frame(k2, e).claimed
    /\ Frame(k2, e).pc = "done"
    /\ events[e].status # "pending"

\* C9: when the coordinator keeps running, every event in status processing
\* reaches a terminal status.
C9_ClaimedEventuallyTerminal ==
  \A e \in Events :
    (e \in DOMAIN events /\ events[e].status = "processing")
      ~> (e \in DOMAIN events /\ events[e].status \in Terminal)

\* C10: an event's status moves only pending -> processing -> terminal: a new
\* event is pending, only a pending event becomes processing, only a
\* processing event receives a terminal status, and a terminal status is
\* never changed.
C10_StatusLifecycle ==
  [][\A e \in DOMAIN events' :
       IF e \notin DOMAIN events THEN events'[e].status = "pending"
       ELSE \/ events'[e].status = events[e].status
            \/ events[e].status = "pending" /\ events'[e].status = "processing"
            \/ events[e].status = "processing" /\ events'[e].status \in Terminal]_vars

\* C10 witness: the event is queued for review and the second coordinator's
\* later claim has failed.
C10_Witness ==
  \E e \in DOMAIN events :
    /\ events[e].status = "queued"
    /\ events[e].reviewId > 0
    /\ \A k \in Coordinators : Frame(k, e).pc = "done"
    /\ \E k \in Coordinators : ~Frame(k, e).claimed

(***************************************************************************)
(* setAutoMode over thresholds inside and outside [0, 1].                  *)
(***************************************************************************)
ThresholdInputs == {0 - 10, 0, 65, 85, 100, 120, 150}

AutoModeCalls ==
  [enabled : BOOLEAN, ingestThreshold : ThresholdInputs,
   reviewThreshold : ThresholdInputs, gateByClock : BOOLEAN]

NextAutoMode ==
  \/ \E cfg \in AutoModeCalls : SetAutoMode(cfg)
  \/ StartClock
  \/ StopClock

SpecAutoMode == InitCoordinator /\ [][NextAutoMode]_vars

StoredThresholdsOrdered ==
  game.autoMode # null =>
    game.autoMode.reviewThreshold <= game.autoMode.ingestThreshold

\* C11 (as stated): setAutoMode throws for every pair of numeric thresholds
\* with reviewThreshold > ingestThreshold, and every stored autoMode has
\* reviewThreshold <= ingestThreshold.
C11_RejectsEveryUnorderedPair ==
  /\ \A cfg \in AutoModeCalls :
       cfg.reviewThreshold > cfg.ingestThreshold => setAutoModeThrows(cfg)
  /\ StoredThresholdsOrdered

\* C11 (amended): setAutoMode throws for every pair with reviewThreshold >
\* ingestThreshold whose review value is at most 1 and whose ingest value is at
\* least 0; a pair that is out of order only above 1 or only below 0 is clamped
\* to equal values and accepted; every stored autoMode has both thresholds in
\* [0, 1] and reviewThreshold <= ingestThreshold.
C11_RejectsUnorderedAfterClamp ==
  /\ \A cfg \in AutoModeCalls :
       cfg.reviewThreshold > cfg.ingestThreshold =>
         (setAutoModeThrows(cfg) <=>
            cfg.reviewThreshold > 0 /\ cfg.ingestThreshold < 100)
  /\ StoredThresholdsOrdered
  /\ game.autoMode # null =>
       /\ game.autoMode.reviewThreshold \in 0..100
       /\ game.autoMode.ingestThreshold \in 0..100

\* A stored configuration with both thresholds at 1: the calls that produce it
\* include ingestThreshold 1.2 with reviewThreshold 1.5.
C11_Witness ==
  /\ game.autoMode # null
  /\ game.autoMode.reviewThreshold = 100
  /\ game.autoMode.ingestThreshold = 100
  /\ \E cfg \in AutoModeCalls :
       /\ cfg.reviewThreshold > cfg.ingestThreshold
       /\ ~setAutoModeThrows(cfg)
       /\ clamp01(cfg.reviewThreshold) = game.autoMode.reviewThreshold
       /\ clamp01(cfg.ingestThreshold) = game.autoMode.ingestThreshold

(***************************************************************************)
(* Shot rules with exact zones: a game whose first challenge carries the   *)
(* soft allow-list and whose second carries the strict one.                *)
(***************************************************************************)
\* Manual attempts with a range and no zone.
RangeShotParams ==
  {p \in ShotInputs :
     /\ p.source = "manual"
     /\ p.playerId # "pX"
     /\ p.shotType \in {"mid", "long"}
     /\ ~p.moneyball}

InitRules ==
  /\ game = createGame([mode |-> "sequence", sequenceChallengeIds |-> <<"c3", "c4">>,
                        freestyle |-> null],
                       [NoLocks EXCEPT !["A"] = [uid |-> "u1"]])
  /\ logs = EmptyFn
  /\ nextLogId = 1
  /\ ruleMetaBound \in BOOLEAN
  /\ leaving = [u \in Trackers |-> Idle]
  /\ undo = [c \in UndoClients |-> Idle]
  /\ cycle = 0
  /\ logCycle = EmptyFn
  /\ now = 0
  /\ helpersBound = ruleMetaBound
  /\ InitAuto

NextRules ==
  \/ \E uid \in Users, p \in RangeShotParams : LogShot(uid, p) /\ UNCHANGED AutoVars
  \/ AdvanceToNextChallenge /\ UNCHANGED AutoVars

SpecRules == InitRules /\ [][NextRules]_vars

\* The call passes every check of logShot that precedes the shot rule.
PassesChecksBeforeRule(g, uid, p) ==
  LogShotError(g, uid, p) \in {"ok", "ShotRuleViolation"}

\* C12: for a mid or long shot without a zone and an allow rule of exact
\* range_zone items only, shotMatchesRule gives ok = true under soft validation
\* and ok = false under strict validation; logShot accepts the manual attempt
\* under the soft rule and rejects it with the rule violation under the strict
\* rule.
C12_ExactZoneRuleSoftVsStrict ==
  /\ \A rule \in ExactZoneRules, t \in {"mid", "long"}, degrade \in BOOLEAN :
       shotMatchesRule([shotType |-> t, zone |-> Nil, shotKey |-> Nil],
                       rule, degrade).ok
         = (rule.validation = "soft")
  /\ \A uid \in Users, p \in RangeShotParams :
       LET rule == getCurrentChallengeMeta(game).shotRule IN
       (rule \in ExactZoneRules /\ PassesChecksBeforeRule(game, uid, p)) =>
         IF rule.validation = "soft"
           THEN LogShotCommits(game, uid, p)
           ELSE /\ LogShotError(game, uid, p) = "ShotRuleViolation"
                /\ ~LogShotCommits(game, uid, p)

(***************************************************************************)
(* A game session: trackers claim, release and are assigned team locks,    *)
(* record shots, and the main operator ends the game.  The game is a       *)
(* sequence of the one challenge c1 (target 2, no shot rule); u1 holds     *)
(* team A at the start.                                                    *)
(***************************************************************************)
\* The calls of logShot the trackers make: manual mids for either team, and a
\* made mid for team A from each non-manual source.
SessionShotParams ==
  {p \in ShotInputs :
     /\ p.playerId # "pX"
     /\ p.shotType = "mid"
     /\ ~p.moneyball
     /\ (p.source # "manual" => p.playerId = "pA" /\ p.made)
     /\ (p.playerId = "pB" => p.made)}

InitSession ==
  /\ game = createGame([mode |-> "sequence", sequenceChallengeIds |-> <<"c1">>,
                        freestyle |-> null],
                       [NoLocks EXCEPT !["A"] = [uid |-> "u1"]])
  /\ logs = EmptyFn
  /\ nextLogId = 1
  /\ ruleMetaBound \in BOOLEAN
  /\ leaving = [u \in Trackers |-> Idle]
  /\ undo = [c \in UndoClients |-> Idle]
  /\ cycle = 0
  /\ logCycle = EmptyFn
  /\ now = 0
  /\ helpersBound = ruleMetaBound
  /\ InitAuto

NextSession ==
  \/ \E uid \in Trackers, p \in SessionShotParams :
       LogShot(uid, p) /\ UNCHANGED AutoVars
  \/ \E t \in Teams, u \in Trackers \cup {Nil} : SetTeamLock(t, u) /\ UNCHANGED AutoVars
  \/ \E uid \in Trackers, t \in Teams : TryClaimTeam(uid, t) /\ UNCHANGED AutoVars
  \/ \E uid \in Trackers : LeaveTrackingRead(uid) /\ UNCHANGED AutoVars
  \/ \E uid \in Trackers : LeaveTrackingRelease(uid) /\ UNCHANGED AutoVars
  \/ StartClock
  \/ EndGame /\ UNCHANGED AutoVars

SpecSession == InitSession /\ [][NextSession]_vars

AllCallers == Users \cup Trackers

HoldsLock(g, uid, t) == g.trackerLocks[t] # null /\ g.trackerLocks[t].uid = uid

\* Calls of logShot for every player, result and source; the checks up to the
\* ownership check read nothing else but whether the shot is a bonus shot.
OwnershipShotInputs ==
  {p \in ShotInputs : p.shotType \in {"mid", "bonus_mid"} /\ ~p.moneyball}

\* The call passes the checks of logShot that precede the ownership check.
PassesChecksBeforeOwnership(g, uid, p) ==
  LogShotError(g, uid, p) \notin {"ClockGated", "ChallengeCompleted", "UnknownPlayer"}

\* In every state reached under any interleaving of
\* setTeamLock, tryClaimTeam and leaveTracking, a logShot by a caller who is not
\* the main operator commits only when the shooter's team lock holds that
\* caller's uid; without the lock the call does not commit, and it fails with
\* NotAssignedTracker once the earlier checks pass.
NonMainNeedsLockNow ==
  \A uid \in Trackers, p \in OwnershipShotInputs :
    LET t == playerTeamKey(game, p.playerId) IN
    /\ LogShotCommits(game, uid, p) => HoldsLock(game, uid, t)
    /\ (t # Nil /\ ~HoldsLock(game, uid, t)) =>
         /\ ~LogShotCommits(game, uid, p)
         /\ PassesChecksBeforeOwnership(game, uid, p) =>
              LogShotError(game, uid, p) = "NotAssignedTracker"

\* Every step that adds an Attempt Log (all shots of the session are by callers
\* other than the main operator) is taken in a state where the lock of the
\* log's team is held by such a caller who could commit that very shot, and
\* every step taken while neither lock is held leaves the scores and the logs
\* unchanged.
NonMainCommitStep ==
  /\ \A id \in DOMAIN logs' \ DOMAIN logs :
       IsAttempt(logs'[id]) =>
         \E uid \in Trackers :
           /\ HoldsLock(game, uid, logs'[id].team)
           /\ \E p \in SessionShotParams :
                /\ LogShotCommits(game, uid, p)
                /\ logs'[id] = AttemptDoc(game, p)
  /\ (\A t \in Teams : game.trackerLocks[t] = null) =>
       /\ logs' = logs
       /\ game'.challengeScore = game.challengeScore
       /\ game'.matchScore = game.matchScore
       /\ game'.challengeWon = game.challengeWon
       /\ game'.specials = game.specials

\* C14: under any interleaving of setTeamLock, tryClaimTeam and leaveTracking,
\* a logShot by a caller who is not the main operator commits only while the
\* lock of the shooter's team holds that caller's uid; a caller without the
\* lock is refused (NotAssignedTracker once the earlier checks pass) and the
\* game and the logs stay as they were.
C14_NonMainCommitsOnlyWithLock ==
  []NonMainNeedsLockNow /\ [][NonMainCommitStep]_vars

\* Team B's lock was free at the start: a tracker took it and recorded a shot
\* for team B, the lock has since moved to another tracker while a
\* leaveTracking is between its read and its release, and the tracker without
\* the lock is refused.
C14_Witness ==
  /\ \E id \in DOMAIN logs : IsAttempt(logs[id]) /\ logs[id].team = "B"
  /\ \E uid \in Trackers :
       /\ leaving[uid].pc = "release"
       /\ ~HoldsLock(game, uid, "B")
       /\ \E p \in SessionShotParams :
            /\ p.playerId = "pB"
            /\ LogShotError(game, uid, p) = "NotAssignedTracker"
       /\ \E other \in Trackers \ {uid} : HoldsLock(game, other, "B")

(***************************************************************************)
(* Atomicity and the win log, checked under Spec.                          *)
(***************************************************************************)
RemovedAttemptIds == {id \in DOMAIN logs \ DOMAIN logs' : IsAttempt(logs[id])}
AddedAttemptIds == {id \in DOMAIN logs' \ DOMAIN logs : IsAttempt(logs'[id])}

ProgressShotParams ==
  {p \in ShotInputs :
     /\ p.source = "manual"
     /\ p.playerId # "pX"
     /\ p.shotType = "mid"
     /\ p.made
     /\ (p.moneyball => p.playerId = "pA")}

InitProgress ==
  /\ game = createGame([mode |-> "sequence", sequenceChallengeIds |-> <<"c1", "c2">>,
                        freestyle |-> null],
                       [NoLocks EXCEPT !["A"] = [uid |-> "u1"]])
  /\ logs = EmptyFn
  /\ nextLogId = 1
  /\ ruleMetaBound \in BOOLEAN
  /\ leaving = [u \in Trackers |-> Idle]
  /\ undo = [c \in UndoClients |-> Idle]
  /\ cycle = 0
  /\ logCycle = EmptyFn
  /\ now = 0
  /\ helpersBound = ruleMetaBound
  /\ InitAuto

NextProgress ==
  \/ \E uid \in Users, p \in ProgressShotParams : LogShot(uid, p) /\ UNCHANGED AutoVars
  \/ \E c \in UndoClients, id \in DOMAIN logs : ReverseShot(c, id) /\ UNCHANGED AutoVars
  \/ \E c \in UndoClients : RecomputeQuery(c) /\ UNCHANGED AutoVars
  \/ \E c \in UndoClients : RecomputeUpdate(c) /\ UNCHANGED AutoVars
  \/ AdvanceToNextChallenge /\ UNCHANGED AutoVars

SpecProgress == InitProgress /\ [][NextProgress]_vars

IngestSetups == [enabled : BOOLEAN, gateByClock : BOOLEAN, clockRunning : BOOLEAN]

InitIngest ==
  /\ \E c \in IngestSetups :
       game = [createGame([mode |-> "sequence", sequenceChallengeIds |-> <<"c1", "c2">>,
                           freestyle |-> null],
                          [NoLocks EXCEPT !["A"] = [uid |-> "u1"]])
                 EXCEPT !.autoMode = [enabled |-> c.enabled,
                                      ingestThreshold |-> IngestThresholdDefault,
                                      reviewThreshold |-> ReviewThresholdDefault,
                                      gateByClock |-> c.gateByClock],
                        !.clockRunning = c.clockRunning,
                        !.lastStartAt = IF c.clockRunning THEN [ts |-> 0] ELSE null]
  /\ logs = EmptyFn
  /\ nextLogId = 1
  /\ ruleMetaBound \in BOOLEAN
  /\ leaving = [u \in Trackers |-> Idle]
  /\ helpersBound = ruleMetaBound
  /\ undo = [c \in UndoClients |-> Idle]
  /\ cycle = 0
  /\ logCycle = EmptyFn
  /\ now = 0
  /\ InitAuto

NextIngest ==
  \/ \E k \in Coordinators : GameSnapshot(k)
  \/ \E e \in Events, d \in EventPayloads : SubmitEvent(e, d)
  \/ \E k \in Coordinators, e \in Events : DeliverEvent(k, e)
  \/ \E k \in Coordinators, e \in Events : ProcStep(k, e)

SpecIngest == InitIngest /\ [][NextIngest]_vars

ReviewItemsOf(e) == {i \in DOMAIN reviewQueue : reviewQueue[i].eventId = e}

\* The processing of e is over and no store operation failed on the way.
ProcessedWithoutFailure(e) ==
  /\ \E k \in Coordinators : Frame(k, e).pc = "done" /\ Frame(k, e).claimed
  /\ \A k \in Coordinators : ~Frame(k, e).storeFailed

AutoEnabled == game.autoMode # null /\ game.autoMode.enabled

ClockGatePasses == ~game.autoMode.gateByClock \/ clockOk(game)

\* C18: a well-formed event with confidence >= ingestThreshold, for a shot
\* that satisfies every precondition of logShot, processed while auto-mode is
\* enabled and the game is live with the clock running and not paused, ends
\* ingested with exactly one Attempt Log of source 'auto', the score updated,
\* and no Review Queue item.
C18_HighConfidenceIngested ==
  \A e \in DOMAIN events :
    LET ev == events[e].data IN
    (/\ basicOk(ev)
     /\ ev.playerId = "pA"
     /\ AutoEnabled
     /\ clockOk(game)
     /\ clamp01(ev.confidence) >= game.autoMode.ingestThreshold
     /\ ProcessedWithoutFailure(e))
    => /\ events[e].status = "ingested"
       /\ Cardinality(LogsOfEvent(e)) = 1
       /\ \A id \in LogsOfEvent(e) : logs[id].source = "auto"
       /\ game.challengeScore["A"] = 1
       /\ ReviewItemsOf(e) = {}

MidConfidence(ev) ==
  /\ basicOk(ev)
  /\ clamp01(ev.confidence) >= game.autoMode.reviewThreshold
  /\ clamp01(ev.confidence) < game.autoMode.ingestThreshold

\* C19: a well-formed event with reviewThreshold <= confidence <
\* ingestThreshold, processed while auto-mode is enabled and the clock gate
\* passes, is never ingested, ignored or disabled; no Attempt Log is written
\* and the scores stay as they were; at most one Review Queue item references
\* it, with reason low_confidence; when the processing is over without a store
\* failure the event is queued, and a queued event has exactly one such item,
\* named by its reviewId; it is blocked only after a store operation failed.
C19_LowConfidenceQueued ==
  \A e \in DOMAIN events :
    (MidConfidence(events[e].data) /\ AutoEnabled /\ ClockGatePasses)
    => /\ events[e].status \in {"pending", "processing", "queued", "blocked"}
       /\ logs = EmptyFn
       /\ \A t \in Teams : game.challengeScore[t] = 0 /\ game.matchScore[t] = 0
       /\ Cardinality(ReviewItemsOf(e)) <= 1
       /\ \A i \in ReviewItemsOf(e) : reviewQueue[i].reason = "low_confidence"
       /\ ProcessedWithoutFailure(e) => events[e].status = "queued"
       /\ events[e].status = "queued" =>
            /\ Cardinality(ReviewItemsOf(e)) = 1
            /\ events[e].reviewId \in ReviewItemsOf(e)
       /\ events[e].status = "blocked" =>
            \E k \in Coordinators : Frame(k, e).storeFailed

\* The event of confidence 0.70 was processed to the end under thresholds
\* 0.65 and 0.85: it is queued and the queue holds its one item.
C19_Witness ==
  \E e \in DOMAIN events :
    /\ MidConfidence(events[e].data)
    /\ AutoEnabled
    /\ ClockGatePasses
    /\ ProcessedWithoutFailure(e)
    /\ events[e].status = "queued"
    /\ Cardinality(ReviewItemsOf(e)) = 1
    /\ reviewQueue[events[e].reviewId].reason = "low_confidence"
    /\ logs = EmptyFn

(***************************************************************************)
(* The clock and the bonus round: the operator starts and stops the clock  *)
(* while time passes, starts and ends the bonus round, and shots are       *)
(* recorded in between.                                                    *)
(***************************************************************************)
\* Time passes on the server.
Tick ==
  /\ now < MaxNow
  /\ now' = now + 1
  /\ UNCHANGED <<game, logs, nextLogId, ruleMetaBound, leaving, undo, cycle, logCycle>>

\* Team A's made shots: a plain mid, a gamechanger, a bonus mid.
BonusShotParams ==
  {p \in ShotInputs :
     /\ p.source = "manual"
     /\ p.playerId = "pA"
     /\ p.shotType \in {"mid", "gamechanger", "bonus_mid"}
     /\ p.made
     /\ ~p.moneyball}

NextBonus ==
  \/ \E uid \in Users, p \in BonusShotParams : LogShot(uid, p) /\ UNCHANGED AutoVars
  \/ AdvanceToNextChallenge /\ UNCHANGED AutoVars
  \/ \E t \in Teams : TryClaimTeam("u2", t) /\ UNCHANGED AutoVars
  \/ StartClock
  \/ StopClock
  \/ Tick /\ UNCHANGED AutoVars
  \/ StartBonusMode /\ UNCHANGED AutoVars
  \/ EndBonusMode /\ UNCHANGED AutoVars

SpecBonus == InitProgress /\ [][NextBonus]_vars

\* A step of startBonusMode: bonusActive turns on, or the step is the
\* transaction's write over a game whose bonus round is already on.
BonusStartStep == (~game.bonusActive /\ game'.bonusActive) \/ StartBonusMode

\* C20: from any clock state, startBonusMode leaves the clock stopped
\* (clockRunning false, lastStartAt null) with clockSeconds 180 and
\* bonusActive true, and leaves challengeScore, matchScore, challengeWon, the
\* specialty flags, the challenge cursor and the tracker locks unchanged.
C20_StartBonusStopsClock ==
  [][BonusStartStep =>
       /\ game'.clockRunning = FALSE
       /\ game'.lastStartAt = null
       /\ game'.clockSeconds = 180
       /\ game'.bonusActive
       /\ game'.challengeScore = game.challengeScore
       /\ game'.matchScore = game.matchScore
       /\ game'.challengeWon = game.challengeWon
       /\ game'.specials = game.specials
       /\ game'.currentChallengeIndex = game.currentChallengeIndex
       /\ game'.trackerLocks = game.trackerLocks
       /\ logs' = logs]_vars

\* The bonus round is on with the clock stopped at 180 after time has passed,
\* in a game with a pending win, a used gamechanger, match points and both
\* locks held.
C20_Witness ==
  /\ game.bonusActive
  /\ ~game.clockRunning
  /\ game.lastStartAt = null
  /\ game.clockSeconds = 180
  /\ now > 0
  /\ game.challengeWon # null
  /\ game.specials["A"].gcUsed
  /\ game.matchScore["A"] > 0
  /\ game.trackerLocks["B"] # null

(***************************************************************************)
(* Shots of the bonus round: the operator turns the bonus round on and     *)
(* off while team A records bonus shots of every type, made or missed, and *)
(* plain mids.                                                             *)
(***************************************************************************)
BonusRoundShotParams ==
  {p \in ShotInputs :
     /\ p.source = "manual"
     /\ p.playerId = "pA"
     /\ p.shotType \in {"mid", "bonus_mid", "bonus_long", "bonus_gc", "bonus"}
     /\ (p.made \/ isBonusType(p.shotType))
     /\ ~p.moneyball}

NextBonusRound ==
  \/ \E uid \in Users, p \in BonusRoundShotParams : LogShot(uid, p) /\ UNCHANGED AutoVars
  \/ StartBonusMode /\ UNCHANGED AutoVars
  \/ EndBonusMode /\ UNCHANGED AutoVars

SpecBonusRound == InitProgress /\ [][NextBonusRound]_vars

\* The bonus shot types and the match points of a made one.
BonusValue == [bonus_mid |-> 1, bonus_long |-> 2, bonus_gc |-> 4, bonus |-> 1]

\* A bonus-type call of logShot, with or without the moneyball flag, never
\* commits while bonusActive is not true, and fails with BonusNotActive once
\* the clock gate, the challengeWon gate, the roster check and the ownership
\* check pass.
BonusNeedsBonusActive ==
  \A uid \in AllCallers, p \in ShotInputs :
    (p.shotType \in DOMAIN BonusValue /\ ~game.bonusActive) =>
      /\ ~LogShotCommits(game, uid, p)
      /\ LogShotError(game, uid, p) \in
           {"ClockGated", "ChallengeCompleted", "UnknownPlayer",
            "NotAssignedTracker", "BonusNotActive"}

\* A step that adds a bonus-type Attempt Log: taken with bonusActive true, it
\* adds the table value of a made shot to the shooter's team matchScore and
\* nothing for a miss, and leaves the other team's matchScore, both
\* challengeScores, challengeWon and the specialty flags as they were; the
\* Attempt Log is the only log added.
BonusShotStep ==
  \A id \in AddedAttemptIds :
    LET l == logs'[id] IN
    l.shotType \in DOMAIN BonusValue =>
      /\ game.bonusActive
      /\ game'.matchScore[l.team] =
           game.matchScore[l.team] + (IF l.made THEN BonusValue[l.shotType] ELSE 0)
      /\ game'.matchScore[Opp(l.team)] = game.matchScore[Opp(l.team)]
      /\ game'.challengeScore = game.challengeScore
      /\ game'.challengeWon = game.challengeWon
      /\ game'.specials = game.specials
      /\ DOMAIN logs' = DOMAIN logs \cup {id}
      /\ \A x \in DOMAIN logs : logs'[x] = logs[x]

\* C21: a bonus-type logShot is accepted only while bonusActive is true; when
\* accepted and made it adds exactly its table value (1, 2, 4, 1) to the
\* shooter's team matchScore; made or missed it never changes challengeScore,
\* challengeWon or the specialty flags and never creates a Win Log.
C21_BonusShotsScoreMatchOnly ==
  []BonusNeedsBonusActive /\ [][BonusShotStep]_vars

\* The bonus round is on and team A has recorded a made bonus_long, a made
\* bonus_gc and a missed bonus shot: six match points, no challenge points.
C21_Witness ==
  /\ game.bonusActive
  /\ \E id \in AttemptIds : logs[id].shotType = "bonus_long" /\ logs[id].made
  /\ \E id \in AttemptIds : logs[id].shotType = "bonus_gc" /\ logs[id].made
  /\ \E id \in AttemptIds : isBonusType(logs[id].shotType) /\ ~logs[id].made
  /\ game.matchScore["A"] = 6
  /\ game.challengeScore["A"] = 0
  /\ game.challengeWon = null

(***************************************************************************)
(* Advancing the challenge: games of every mode (a sequence of one         *)
(* challenge, of two, an empty sequence, freestyle) in which the operator  *)
(* scores, runs the clock and the bonus round, a tracker claims a team,    *)
(* and the operator advances.                                              *)
(***************************************************************************)
AdvanceSetups ==
  GameSetups \cup
  {[mode |-> "sequence", sequenceChallengeIds |-> <<"c1", "c2">>, freestyle |-> null],
   [mode |-> "sequence", sequenceChallengeIds |-> <<>>, freestyle |-> null]}

InitAdvance ==
  /\ \E setup \in AdvanceSetups :
       game = createGame(setup, [NoLocks EXCEPT !["A"] = [uid |-> "u1"]])
  /\ logs = EmptyFn
  /\ nextLogId = 1
  /\ ruleMetaBound \in BOOLEAN
  /\ leaving = [u \in Trackers |-> Idle]
  /\ undo = [c \in UndoClients |-> Idle]
  /\ cycle = 0
  /\ logCycle = EmptyFn
  /\ now = 0
  /\ helpersBound = ruleMetaBound
  /\ InitAuto

NextAdvance ==
  \/ \E p \in BonusShotParams : LogShot("main", p) /\ UNCHANGED AutoVars
  \/ AdvanceToNextChallenge /\ UNCHANGED AutoVars
  \/ \E t \in Teams : TryClaimTeam("u2", t) /\ UNCHANGED AutoVars
  \/ StartClock
  \/ Tick /\ UNCHANGED AutoVars
  \/ StartBonusMode /\ UNCHANGED AutoVars

SpecAdvance == InitAdvance /\ [][NextAdvance]_vars

\* In sequence mode with a non-empty sequence the cursor is an index of the
\* sequence, counted from 0.
CursorInSequence ==
  (game.mode = "sequence" /\ Len(game.sequenceChallengeIds) > 0) =>
    game.currentChallengeIndex \in 0 .. (Len(game.sequenceChallengeIds) - 1)

\* The cursor after an advance from cursor cur in a sequence of n challenges.
ClampedNext(cur, n) ==
  IF n = 0 THEN 0
  ELSE IF cur + 1 <= n - 1 THEN cur + 1 ELSE n - 1

\* A commit of advanceToNextChallenge.
AdvanceStep ==
  cycle' = cycle + 1 =>
    /\ game'.currentChallengeIndex =
         IF game.mode = "sequence"
           THEN ClampedNext(game.currentChallengeIndex, Len(game.sequenceChallengeIds))
           ELSE game.currentChallengeIndex + 1
    /\ game'.challengeScore = [t \in Teams |-> 0]
    /\ game'.challengeWon = null
    /\ \A t \in Teams : ~game'.specials[t].moneyUsed /\ ~game'.specials[t].gcUsed
    /\ ~game'.bonusActive
    /\ game'.overtimeCount = 0
    /\ game'.matchScore = game.matchScore
    /\ game'.trackerLocks = game.trackerLocks
    /\ game'.clockSeconds = game.clockSeconds
    /\ game'.clockRunning = game.clockRunning
    /\ game'.lastStartAt = game.lastStartAt
    /\ logs' = logs

\* C22: advanceToNextChallenge sets the cursor to min(cur+1, max(0, n-1)) in
\* sequence mode and to cur+1 in freestyle mode, resets challengeScore,
\* challengeWon, the specialty flags, bonusActive and overtimeCount, and
\* leaves matchScore, the tracker locks, the clock fields and the logs
\* unchanged; in sequence mode with a non-empty sequence the cursor stays
\* within 0..n-1.
C22_AdvanceResetsChallenge ==
  []CursorInSequence /\ [][AdvanceStep]_vars

\* After an advance the challenge state is reset while the match points, the
\* second lock, the running clock and the logs of the previous challenge are
\* still there.
C22_Witness ==
  /\ cycle = 1
  /\ game.challengeScore = [t \in Teams |-> 0]
  /\ game.challengeWon = null
  /\ game.matchScore["A"] > 0
  /\ game.trackerLocks["B"] # null
  /\ game.clockRunning
  /\ game.lastStartAt # null
  /\ AttemptIds # {}
  /\ WinLogIds # {}

(***************************************************************************)
(* The order of the coordinator's checks, checked under SpecCoordinator:   *)
(* the operator configures the auto-mode and runs the clock while events   *)
(* are processed.                                                          *)
(***************************************************************************)
\* Coordinator k has read the game for event e and decides what to do.
DecisionStep(k, e) ==
  /\ Frame(k, e).pc = "readGame"
  /\ procs'[k][e].pc \notin {"readGame", "catch"}

\* The call of k for e is about to write the status st of a gate.
AtGate(k, e) == Frame(k, e).pc \in {"markDisabled", "markClockBlocked"}

\* C23: after the claim, an event read while auto-mode is disabled or absent
\* goes to disabled whatever the clock, its shape and its confidence; otherwise
\* an event read while the clock gate is on and the game is not live, its clock
\* not running or paused goes to blocked whatever its shape and confidence; in
\* both cases the call writes that status next, and no Attempt Log and no
\* Review Queue item exists for the event and the scores are unchanged.
C23_ChecksInOrder ==
  [][\A k \in Coordinators, e \in DOMAIN events :
       /\ DecisionStep(k, e) =>
            IF ~AutoEnabled THEN procs'[k][e].pc = "markDisabled"
            ELSE IF game.autoMode.gateByClock /\ ~clockOk(game)
              THEN procs'[k][e].pc = "markClockBlocked"
            ELSE TRUE
       /\ (AtGate(k, e) /\ procs'[k][e] # procs[k][e]) =>
            /\ \/ procs'[k][e].storeFailed
               \/ events'[e].status =
                    IF Frame(k, e).pc = "markDisabled" THEN "disabled" ELSE "blocked"
            /\ LogsOfEvent(e) = {} /\ logs' = logs
            /\ ReviewItemsOf(e) = {} /\ reviewQueue' = reviewQueue
            /\ game' = game]_vars

\* The Scoring Engine rejects the shot of event e for the coordinator that
\* claimed it.
EngineRejects(e) ==
  \E k \in Coordinators :
    /\ Frame(k, e).claimed
    /\ LogShotError(game, CoordUid[k], AutoShotParams(e, events[e].data)) # "ok"

\* C24: a claimed, well-formed event with confidence >= ingestThreshold whose
\* shot the Scoring Engine rejects ends queued, with exactly one Review Queue
\* item referencing it, of reason rule_violation or blocked; no Attempt Log
\* is committed and the scores are unchanged.  Checked under SpecIngest, for
\* processings in which no store operation fails.
C24_RejectedEventQueued ==
  \A e \in DOMAIN events :
    LET ev == events[e].data IN
    (/\ basicOk(ev)
     /\ AutoEnabled
     /\ ClockGatePasses
     /\ clamp01(ev.confidence) >= game.autoMode.ingestThreshold
     /\ EngineRejects(e)
     /\ ProcessedWithoutFailure(e))
    => /\ events[e].status = "queued"
       /\ Cardinality(ReviewItemsOf(e)) = 1
       /\ \A i \in ReviewItemsOf(e) : reviewQueue[i].reason \in {"rule_violation", "blocked"}
       /\ LogsOfEvent(e) = {}
       /\ \A t \in Teams : game.challengeScore[t] = 0 /\ game.matchScore[t] = 0

(***************************************************************************)
(* The game clock: the operator sets the baseline, starts and stops the    *)
(* clock while time passes; shots are recorded and a tracker claims a      *)
(* team in between.                                                        *)
(***************************************************************************)
\* The seconds the operator enters: a negative number, 1, 2.
ClockInputs == {0 - 5, 1, 2}

\* setClockSeconds(gameId, seconds): updateDoc({ clockSeconds: max(0, seconds) }).
SetClockSeconds(seconds) ==
  /\ game' = [game EXCEPT !.clockSeconds = Max0(seconds)]
  /\ UNCHANGED <<logs, nextLogId, ruleMetaBound, leaving, undo, cycle, logCycle, now>>

\* computeDisplayedSeconds(clockSeconds, running, lastStartAt) evaluated at
\* time t: the remaining time a screen shows.
computeDisplayedSeconds(clockSeconds, running, lastStartAt, t) ==
  IF ~running \/ lastStartAt = null THEN clockSeconds
  ELSE Max0(clockSeconds - Max0(t - lastStartAt.ts))

NextClock ==
  \/ \E p \in BonusShotParams : LogShot("main", p) /\ UNCHANGED AutoVars
  \/ \E t \in Teams : TryClaimTeam("u2", t) /\ UNCHANGED AutoVars
  \/ \E s \in ClockInputs : SetClockSeconds(s) /\ UNCHANGED AutoVars
  \/ StartClock
  \/ StopClock
  \/ Tick /\ UNCHANGED AutoVars

SpecClock == InitProgress /\ [][NextClock]_vars

Displayed(g, t) == computeDisplayedSeconds(g.clockSeconds, g.clockRunning, g.lastStartAt, t)

\* A stopClock on a stopped clock would store the baseline it found.
StoppedClockKeepsSeconds ==
  ~game.clockRunning => stopRemaining(game, now) = game.clockSeconds

\* A step that stops a running clock: under SpecClock, a commit of stopClock.
StopStep ==
  (game.clockRunning /\ ~game'.clockRunning) =>
    LET elapsed == now - game.lastStartAt.ts IN
    /\ game'.clockSeconds =
         IF game.clockSeconds - elapsed > 0 THEN game.clockSeconds - elapsed ELSE 0
    /\ game'.clockSeconds = Displayed(game, now)
    /\ Displayed(game', now') = Displayed(game, now)
    /\ game'.lastStartAt = null
    /\ game'.matchScore = game.matchScore
    /\ game'.challengeScore = game.challengeScore
    /\ game'.challengeWon = game.challengeWon
    /\ game'.bonusActive = game.bonusActive
    /\ game'.trackerLocks = game.trackerLocks

\* C25: stopClock on a running clock stores clockSeconds = max(0, baseline -
\* whole seconds elapsed since lastStartAt), the remaining time displayed
\* just before the stop, and sets clockRunning false and lastStartAt null; on
\* a stopped clock it leaves clockSeconds unchanged; it never changes the
\* scores, challengeWon, bonusActive or the locks.
C25_StopPreservesRemaining ==
  []StoppedClockKeepsSeconds /\ [][StopStep]_vars

\* The clock was set to 2 seconds, ran for one and was stopped at 1, with a
\* point scored and the second lock held.
C25_Witness ==
  /\ ~game.clockRunning
  /\ game.lastStartAt = null
  /\ game.clockSeconds = 1
  /\ now = 1
  /\ game.challengeScore["A"] > 0
  /\ game.trackerLocks["B"] # null

(***************************************************************************)
(* Claiming a team: the trackers claim and leave teams and record shots;   *)
(* the main operator assigns no lock.                                      *)
(***************************************************************************)
NextClaim ==
  \/ \E uid \in Trackers, p \in SessionShotParams :
       LogShot(uid, p) /\ UNCHANGED AutoVars
  \/ \E uid \in Trackers, t \in Teams : TryClaimTeam(uid, t) /\ UNCHANGED AutoVars
  \/ \E uid \in Trackers : LeaveTrackingRead(uid) /\ UNCHANGED AutoVars
  \/ \E uid \in Trackers : LeaveTrackingRelease(uid) /\ UNCHANGED AutoVars

SpecClaim == InitSession /\ [][NextClaim]_vars

\* The holder of a slot, Nil when it is free.
Holder(g, t) == IF g.trackerLocks[t] = null THEN Nil ELSE g.trackerLocks[t].uid

\* What a tryClaimTeam(t) by u would commit now: u holds the slot after it iff
\* the slot is free or already u's, the slot keeps its holder otherwise.
ClaimOutcomeNow ==
  \A u \in Trackers, t \in Teams :
    LET after == IF claimAllowed(game.trackerLocks[t], u) THEN u ELSE Holder(game, t) IN
    /\ Holder(game, t) \in {Nil, u} => after = u
    /\ Holder(game, t) \notin {Nil, u} => after = Holder(game, t)

\* A step that gives a slot a holder (under SpecClaim, a commit of
\* tryClaimTeam) finds the slot free and leaves the other slot as it is: of
\* two callers claiming the same free slot, the first to commit is the holder
\* and the second does not replace it.
ClaimStep ==
  \A t \in Teams :
    (Holder(game', t) # Holder(game, t) /\ Holder(game', t) # Nil) =>
      /\ Holder(game, t) = Nil
      /\ game'.trackerLocks[Opp(t)] = game.trackerLocks[Opp(t)]

\* C26: tryClaimTeam(team) by caller u makes u the holder of
\* trackerLocks[team] only if the slot is null or already held by u when the
\* transaction commits; otherwise the slot keeps its holder; the other team's
\* slot is never changed; of two callers claiming the same free slot exactly
\* one ends up as holder.
C26_ClaimOnlyFreeSlot ==
  []ClaimOutcomeNow /\ [][ClaimStep]_vars

\* u1 has left team A, u2 has claimed it, and u1 has claimed team B.
C26_Witness ==
  /\ Holder(game, "A") = "u2"
  /\ Holder(game, "B") = "u1"

\* A step in which the leaveTracking of u completes.
LeaveCompletes(u) == leaving[u].pc = "release" /\ leaving'[u].pc = "idle"

\* C27: when leaveTracking by caller u has completed, neither trackerLocks.A
\* nor trackerLocks.B is held by u, also when u held both slots, and the write
\* of leaveTracking clears no slot that another uid holds at that time, under
\* any interleaving with setTeamLock and tryClaimTeam.
C27_LeaveReleasesOwnLocksOnly ==
  [][\A u \in Trackers :
       LeaveCompletes(u) =>
         \A t \in Teams :
           /\ Holder(game', t) # u
           /\ Holder(game, t) \notin {Nil, u} => Holder(game', t) = Holder(game, t)]_vars

(***************************************************************************)
(* CastingDisplay: the overtime auto-setup effect.  Each mounted display   *)
(* keeps the game its onSnapshot listener delivered last and a             *)
(* processedOTRef; the effect reads both, and its updateDoc is a separate  *)
(* step that commits later.                                                *)
(***************************************************************************)
MaxOvertime == 2   \* overtimes a game goes through

\* The fields of the game the effect reads.
DisplayView(g) ==
  [bonusActive |-> g.bonusActive, clockSeconds |-> g.clockSeconds,
   clockRunning |-> g.clockRunning, lastStartAt |-> g.lastStartAt,
   matchScore |-> g.matchScore, overtimeCount |-> g.overtimeCount]

\* onSnapshot(doc(db, 'games', gameId)) of display d: setGame.
DisplaySnapshot(d) ==
  /\ displays[d].snap # DisplayView(game)
  /\ displays' = [displays EXCEPT ![d].snap = DisplayView(game)]
  /\ UNCHANGED <<game, logs, nextLogId, ruleMetaBound, leaving, undo, cycle, logCycle,
                 events, procs, latestGame, helpersBound, reviewQueue, claims,
                 resolving, now>>

\* bonusTimeUp of a render at time t.
bonusTimeUp(snap, t) ==
  /\ snap.bonusActive
  /\ computeDisplayedSeconds(snap.clockSeconds, snap.clockRunning, snap.lastStartAt, t) <= 0

\* The overtime duration: 2:00 for the first overtime, 1:00 afterwards.
OvertimeSeconds(currentCount) == IF currentCount = 0 THEN 120 ELSE 60

\* The overtime effect of display d runs on its snapshot: it resyncs the
\* guard, and on a tie at time up that it has not handled it issues the
\* update.
OvertimeEffect(d) ==
  LET snap == displays[d].snap
      currentCount == snap.overtimeCount
      synced == IF displays[d].processedOT < currentCount
                  THEN currentCount ELSE displays[d].processedOT
      isTie == bonusTimeUp(snap, now) /\ snap.matchScore["A"] = snap.matchScore["B"]
      alreadyHandled == synced > currentCount
  IN  /\ displays[d].pc = "idle"
      /\ snap # null
      /\ snap.bonusActive
      /\ currentCount < MaxOvertime
      /\ displays' = [displays EXCEPT
                        ![d].processedOT = synced,
                        ![d].pc = IF isTie /\ ~alreadyHandled THEN "write" ELSE "idle",
                        ![d].count = IF isTie /\ ~alreadyHandled THEN currentCount ELSE 0]
      /\ displays' # displays
      /\ UNCHANGED <<game, logs, nextLogId, ruleMetaBound, leaving, undo, cycle, logCycle,
                     events, procs, latestGame, helpersBound, reviewQueue, claims,
                     resolving, now>>

\* The updateDoc of the effect commits and the guard is bumped, or it throws
\* and the effect only logs a warning.
OvertimeWrite(d) ==
  /\ displays[d].pc = "write"
  /\ \/ /\ game' = [game EXCEPT
                      !.clockSeconds = OvertimeSeconds(displays[d].count),
                      !.clockRunning = FALSE,
                      !.lastStartAt = null,
                      !.overtimeCount = displays[d].count + 1]
        /\ displays' = [displays EXCEPT ![d].processedOT = displays[d].count + 1,
                                        ![d].pc = "idle", ![d].count = 0]
     \/ /\ displays' = [displays EXCEPT ![d].pc = "idle", ![d].count = 0]
        /\ UNCHANGED game
  /\ UNCHANGED <<logs, nextLogId, ruleMetaBound, leaving, undo, cycle, logCycle,
                 events, procs, latestGame, helpersBound, reviewQueue, claims,
                 resolving, now>>

\* The bonus round with displays: the operator starts the bonus round, sets
\* the clock to 1 second and starts it, time passes, team A scores a bonus
\* mid, and two displays show the game.
NextOvertime ==
  \/ \E p \in BonusShotParams :
       p.shotType = "bonus_mid" /\ LogShot("main", p) /\ nextLogId < 2
         /\ UNCHANGED AutoVars
  \/ StartBonusMode /\ ~game.bonusActive /\ UNCHANGED AutoVars
  \/ SetClockSeconds(1) /\ game.bonusActive /\ UNCHANGED AutoVars
  \/ StartClock /\ game.bonusActive
  \/ Tick /\ UNCHANGED AutoVars
  \/ \E d \in Displays : DisplaySnapshot(d)
  \/ \E d \in Displays : OvertimeEffect(d)
  \/ \E d \in Displays : OvertimeWrite(d)

SpecOvertime == InitProgress /\ [][NextOvertime]_vars

\* The update of display d's overtime effect commits.
EscalationStep(d) ==
  /\ displays[d].pc = "write"
  /\ displays'[d].processedOT = displays[d].count + 1
  /\ displays'[d].pc = "idle"

\* C28: each time the bonus clock reaches zero with the match tied, the
\* escalation fires exactly once, also when several displays observe the
\* same tie: every committed update of an overtime effect raises
\* overtimeCount by exactly 1 and resets the clock, stopped, to 120 s for the
\* first overtime and 60 s afterwards; an update that repeats the escalation
\* of a tie already escalated changes nothing, so it does not undo a clock
\* start the operator has made since.
C28_OvertimeFiresOncePerTie ==
  [][\A d \in Displays :
       EscalationStep(d) =>
         \/ game' = game
         \/ /\ game'.overtimeCount = game.overtimeCount + 1
            /\ game'.clockSeconds = IF game.overtimeCount = 0 THEN 120 ELSE 60
            /\ ~game'.clockRunning
            /\ game'.lastStartAt = null]_vars

\* The made, non-bonus Attempt Logs of team t that were recorded since the
\* last advanceToNextChallenge and still exist.
CurrentScoringLogs(t) ==
  {id \in AttemptIds :
     /\ logs[id].team = t
     /\ logs[id].made
     /\ ~isBonusType(logs[id].shotType)
     /\ logCycle[id] = cycle}

ReviewerUid == [r1 |-> "main", r2 |-> "u1"]

\* The patchFields an editor passes: the shot was a miss.
EditPatches == {[made |-> FALSE]}

\* { ...snap.data(), ...patchFields }
Merge(r, patch) ==
  [f \in DOMAIN r \cup DOMAIN patch |-> IF f \in DOMAIN patch THEN patch[f] ELSE r[f]]

\* The call of logShot an approval makes for item i read as r.
ReviewShotParams(i, r, kind) ==
  [playerId |-> r.playerId, shotType |-> r.shotType, made |-> r.made,
   moneyball |-> r.moneyball,
   source |-> IF kind = "approve" THEN "review" ELSE "review_edit",
   evidence |-> IF kind = "approve" THEN [reviewId |-> i]
                ELSE [reviewId |-> i, edited |-> TRUE],
   zone |-> Nil]

\* approveReviewItem / editAndApproveReviewItem by client c, first await:
\* getDoc(review_queue/{reviewId}).
ResolveRead(c, i, kind, patch) ==
  /\ resolving[c].pc = "idle"
  /\ i \in DOMAIN reviewQueue
  /\ resolving' = [resolving EXCEPT ![c] =
                     [pc |-> "logShot", reviewId |-> i, kind |-> kind,
                      r |-> Merge(reviewQueue[i], patch)]]
  /\ UNCHANGED <<game, logs, nextLogId, ruleMetaBound, leaving, undo, cycle, logCycle,
                 events, procs, latestGame, helpersBound, reviewQueue, claims,
                 displays, now>>

\* Second await: logShot commits, or it throws (a rejection, or the store
\* fails) and the approval ends without markResolved.
ResolveLogShot(c) ==
  /\ resolving[c].pc = "logShot"
  /\ LET f == resolving[c]
         p == ReviewShotParams(f.reviewId, f.r, f.kind) IN
     /\ AttemptId(game, nextLogId, p) <= MaxLogId
     /\ \/ /\ LogShotCommits(game, ReviewerUid[c], p)
           /\ game' = LogShotGame(game, nextLogId, p)
           /\ logs' = LogShotLogs(game, logs, nextLogId, p)
           /\ nextLogId' = LogShotNextId(game, nextLogId, p)
           /\ logCycle' = [id \in DOMAIN logs' |->
                             IF id \in DOMAIN logs THEN logCycle[id] ELSE cycle]
           /\ resolving' = [resolving EXCEPT ![c] =
                              [pc |-> "mark", reviewId |-> f.reviewId,
                               decision |-> IF f.kind = "approve" THEN "approved"
                                            ELSE "approved_edit"]]
        \/ /\ resolving' = [resolving EXCEPT ![c] = Idle]
           /\ UNCHANGED <<game, logs, nextLogId, logCycle>>
  /\ UNCHANGED <<ruleMetaBound, leaving, undo, cycle,
                 events, procs, latestGame, helpersBound, reviewQueue, claims,
                 displays, now>>

\* markResolved(gameId, reviewId, {decision}): updateDoc.
markResolved(queue, i, decision) ==
  [queue EXCEPT ![i].resolved = TRUE, ![i].decision = decision]

\* Third await of an approval: markResolved, or a throw.
ResolveMark(c) ==
  /\ resolving[c].pc = "mark"
  /\ \/ reviewQueue' = markResolved(reviewQueue, resolving[c].reviewId, resolving[c].decision)
     \/ UNCHANGED reviewQueue
  /\ resolving' = [resolving EXCEPT ![c] = Idle]
  /\ UNCHANGED <<game, logs, nextLogId, ruleMetaBound, leaving, undo, cycle, logCycle,
                 events, procs, latestGame, helpersBound, claims, displays, now>>

\* rejectReviewItem(gameId, reviewId) by client c: markResolved.
RejectReviewItem(c, i) ==
  /\ resolving[c].pc = "idle"
  /\ i \in DOMAIN reviewQueue
  /\ reviewQueue' = markResolved(reviewQueue, i, "rejected")
  /\ reviewQueue' # reviewQueue
  /\ UNCHANGED <<game, logs, nextLogId, ruleMetaBound, leaving, undo, cycle, logCycle,
                 events, procs, latestGame, helpersBound, claims, displays,
                 resolving, now>>

\* The event of confidence 0.70 that coordinator k1 has queued.
QueuedEvent ==
  [type |-> "shot", playerId |-> "pA", shotType |-> "mid", made |-> TRUE,
   moneyball |-> FALSE, confidence |-> 70, zone |-> Nil]

\* A game with auto-mode on, the clock gate off and the clock stopped, in
\* which coordinator k1 has processed event e1 into the Review Queue.
InitReview ==
  /\ game = [createGame([mode |-> "sequence", sequenceChallengeIds |-> <<"c1", "c2">>,
                         freestyle |-> null],
                        [NoLocks EXCEPT !["A"] = [uid |-> "u1"]])
               EXCEPT !.autoMode = [enabled |-> TRUE,
                                    ingestThreshold |-> IngestThresholdDefault,
                                    reviewThreshold |-> ReviewThresholdDefault,
                                    gateByClock |-> FALSE]]
  /\ logs = EmptyFn
  /\ nextLogId = 1
  /\ ruleMetaBound \in BOOLEAN
  /\ leaving = [u \in Trackers |-> Idle]
  /\ helpersBound = ruleMetaBound
  /\ undo = [c \in UndoClients |-> Idle]
  /\ cycle = 0
  /\ logCycle = EmptyFn
  /\ now = 0
  /\ events = [e \in Events |-> [status |-> "queued", reviewId |-> 1, data |-> QueuedEvent]]
  /\ procs = [k \in Coordinators |-> [e \in Events |->
                IF k = "k1"
                  THEN [IdleFrame EXCEPT !.pc = "done", !.ev = QueuedEvent,
                                         !.claimed = TRUE, !.reviewId = 1]
                  ELSE IdleFrame]]
  /\ latestGame = [k \in Coordinators |-> null]
  /\ reviewQueue = <<ReviewItem(QueuedEvent, "e1", "low_confidence")>>
  /\ claims = [e \in Events |-> 1]
  /\ displays = [d \in Displays |-> IdleDisplay]
  /\ resolving = [c \in Reviewers |-> Idle]

NextReview ==
  \/ \E c \in Reviewers, i \in DOMAIN reviewQueue : ResolveRead(c, i, "approve", EmptyFn)
  \/ \E c \in Reviewers, i \in DOMAIN reviewQueue, patch \in EditPatches :
       ResolveRead(c, i, "edit", patch)
  \/ \E c \in Reviewers : ResolveLogShot(c)
  \/ \E c \in Reviewers : ResolveMark(c)
  \/ \E c \in Reviewers, i \in DOMAIN reviewQueue : RejectReviewItem(c, i)
  \/ StartClock
  \/ StopClock

SpecReview == InitReview /\ [][NextReview]_vars

\* The Attempt Logs in lg that an approval of item i committed.
ReviewLogs(lg, i) ==
  {id \in DOMAIN lg :
     /\ IsAttempt(lg[id])
     /\ "reviewId" \in DOMAIN lg[id].evidence
     /\ lg[id].evidence.reviewId = i}

AtMostOneLogPerItem ==
  \A i \in DOMAIN reviewQueue : Cardinality(ReviewLogs(logs, i)) <= 1

\* Once an item is resolved, no step changes its recorded decision or adds
\* an Attempt Log for it.
ResolvedStaysResolved ==
  \A i \in DOMAIN reviewQueue :
    reviewQueue[i].resolved =>
      /\ reviewQueue'[i] = reviewQueue[i]
      /\ ReviewLogs(logs', i) = ReviewLogs(logs, i)

\* An approval whose logShot throws ends without resolving the item.
RejectedApprovalLeavesItem ==
  \A c \in Reviewers :
    (resolving[c].pc = "logShot" /\ resolving'[c].pc = "idle") =>
      reviewQueue' = reviewQueue /\ logs' = logs

====
